---------------------------- MODULE Spec2Model ----------------------------
(***************************************************************************)
(* A model of konig's bit-packed board (QuadBoard), of its FEN and SAN    *)
(* decoders and of the 4-bit representation of a Piece.                    *)
(*                                                                         *)
(* A u64 is modelled as the set of its set bit positions (a subset of      *)
(* 0..63), since the model checker's integers are narrower than 64 bits.   *)
(* A text is a sequence of one-character strings.                          *)
(***************************************************************************)
EXTENDS Integers, Sequences, FiniteSets, TLC

VARIABLES
    channels,   \* QuadBoard.channels: the four u64 lanes, <<ch0, ch1, ch2, ch3>>
    written,    \* history: the nibble most recently written at each square
    lastRead,   \* the last read() call: <<>> or <<index, result>>
    panicked,   \* an assert! or panic! of a safe entry point has fired
    lastCall,   \* history: <<>> or the last write/read call, and whether it
                \* entered set_unchecked/get_unchecked
    fenText,    \* the &str handed to Fen::try_from
    fenRecord,  \* the position record the text was produced from, if any
    fenResult,  \* the Result of Fen::try_from
    fenPc,      \* "idle" | "record" | "text" | "done"
    sanText,    \* the &str handed to San::try_from
    sanResult,  \* the Result of San::try_from
    sanPc,      \* "idle" | "text" | "done"
    pieceByte,  \* the u8 handed to Piece::try_from
    pieceOrigin, \* the Piece the u8 was converted from, if any
    pieceResult, \* the Result of Piece::try_from
    piecePc,    \* "idle" | "piece" | "byte" | "done" | "decoded"
    sqPc,       \* "idle" | "square" | "text" | "pair" | "field" | "done"
    sqOrigin,   \* the Square a text was converted from, if any
    sqText,     \* the &str or (char, char) handed to a square conversion
    sqResult,   \* the Result of the square conversion
    fdText,     \* the &str handed to FenData::try_from
    fdResult,   \* the Result of FenData::try_from
    fdPc,       \* "idle" | "text" | "done"
    iterKind,   \* "idle" | "FenIndex" | "BitBoard" | "Rank": the iterator in use
    iter,       \* the iterator's fields
    yielded,    \* the results of the calls made on the iterator so far
    collected,  \* <<>> or the BitBoard collected from the yielded booleans
    position,   \* Position: <<ch1, ch2, ch3, ch4>>
    rawChannels, \* RawQuadBoard.channels
    tryWriteResult \* <<>> or the Result of the last Position::try_write

qbVars == <<channels, written, lastRead, panicked, lastCall>>
fenVars == <<fenText, fenRecord, fenResult, fenPc>>
sanVars == <<sanText, sanResult, sanPc>>
pieceVars == <<pieceByte, pieceOrigin, pieceResult, piecePc>>
squareVars == <<sqPc, sqOrigin, sqText, sqResult>>
fenDataVars == <<fdText, fdResult, fdPc>>
iterVars == <<iterKind, iter, yielded, collected>>
storeVars == <<position, rawChannels, tryWriteResult>>
vars == <<channels, written, lastRead, panicked, lastCall, fenText, fenRecord, fenResult, fenPc,
          sanText, sanResult, sanPc, pieceByte, pieceOrigin, pieceResult, piecePc,
          sqPc, sqOrigin, sqText, sqResult, fdText, fdResult, fdPc,
          iterKind, iter, yielded, collected, position, rawChannels, tryWriteResult>>

----------------------------------------------------------------------------
(* Bounds *)

\* how many of the squares of SquareOrder are written with every value 0..MaxValue
\* (the other squares of the unit test are written with the test's value or 0)
NumFullSquares == 1
\* the largest u8 handed to write() as a value (16 is the first non-nibble)
MaxValue == 16
\* the longest text handed to the square conversions
MaxSquareLen == 3
\* how many calls are made on an iterator beyond the number of its items
MaxExtraCalls == 2
\* the most fields of a text handed to FenData::try_from
MaxFields == 7

----------------------------------------------------------------------------
(* u64 and u8 arithmetic *)

Bits64 == 0..63

Pow2(n) == 2 ^ n

\* the u64 holding a small non-negative integer (`.into()` from u8)
U64Of(n) == {b \in 0..7 : (n \div Pow2(b)) % 2 = 1}

\* x << n on u64, for n < 64: bits shifted past bit 63 are lost
Shl(x, n) == {b + n : b \in x} \cap Bits64

\* x >> n on u64, for n < 64
Shr(x, n) == {b - n : b \in x} \cap Bits64

\* !x on u64
BitNot(x) == Bits64 \ x

RECURSIVE SumPow2(_)
SumPow2(s) == IF s = {} THEN 0
              ELSE LET b == CHOOSE e \in s : TRUE IN Pow2(b) + SumPow2(s \ {b})

\* x as u8: the low eight bits
AsU8(x) == SumPow2(x \cap 0..7)

----------------------------------------------------------------------------
(* QuadBoard (src/src/bitboard/quadboard.rs) *)

\* QuadBoard::empty
empty == <<{}, {}, {}, {}>>

\* QuadBoard::into_channels
into_channels(qb) == qb

\* get_unchecked taken at its doc comment's word ("expects that index is less
\* than 63"): square 63 is not looked up
get_unchecked_below_63(qb, index) ==
    LET mask == IF index < 63 THEN Shl(U64Of(1), index) ELSE {}
        masked_board == [lane \in 1..4 |-> Shr(qb[lane] \cap mask, index)]
        term(lane) == AsU8(Shl(masked_board[lane + 1], lane))
    IN  term(0) + term(1) + term(2) + term(3)

\* QuadBoard::get_unchecked
get_unchecked(qb, index) ==
    LET mask == Shl(U64Of(1), index)
        masked_board == [lane \in 1..4 |-> Shr(qb[lane] \cap mask, index)]
        term(lane) == AsU8(Shl(masked_board[lane + 1], lane))
    IN  term(0) + term(1) + term(2) + term(3)

\* set_unchecked without the masking step: the new bits are ORed over the old
set_unchecked_no_clear(qb, value, index) ==
    << qb[1] \cup Shl(U64Of(value % 2), index),
       qb[2] \cup Shl(U64Of((value % 4) \div 2), index),
       qb[3] \cup Shl(U64Of((value % 8) \div 4), index),
       qb[4] \cup Shl(U64Of(value \div 8), index) >>

\* QuadBoard::set_unchecked
set_unchecked(qb, value, index) ==
    LET bit1 == U64Of(value % 2)
        bit2 == U64Of((value % 4) \div 2)
        bit3 == U64Of((value % 8) \div 4)
        bit4 == U64Of(value \div 8)
        channel1 == Shl(bit1, index)
        channel2 == Shl(bit2, index)
        channel3 == Shl(bit3, index)
        channel4 == Shl(bit4, index)
        clear_mask == BitNot(Shl(U64Of(1), index))
        mask == Bits64 \cap clear_mask
    IN  << (qb[1] \cap mask) \cup channel1,
           (qb[2] \cap mask) \cup channel2,
           (qb[3] \cap mask) \cup channel3,
           (qb[4] \cap mask) \cup channel4 >>

\* <u8 as NibbleEncode>::encode: panics when the value is no nibble
encode_panics(value) == value >= 16
encode(value) == value

\* <u8 as NibbleDecode>::decode
decode(value) == IF value > 16 THEN [ok |-> FALSE, err |-> "TooLarge", val |-> value]
                 ELSE [ok |-> TRUE, val |-> value]

\* the writes of quadboard_set_unchecked_is_correct: <<value, index>>
TestWrites == << <<15, 0>>, <<13, 5>>, <<15, 32>>, <<7, 63>> >>
Squares == {TestWrites[k][2] : k \in 1..Len(TestWrites)}
SquareOrder == <<63, 0, 32, 5>>
FullSquares == {SquareOrder[k] : k \in 1..(IF NumFullSquares < 4 THEN NumFullSquares ELSE 4)}
\* one index past the board, to reach write's and read's index assertion
Indices == Squares \cup {64}
\* the values the checked runs write at an index
ValuesAt(index) ==
    IF index \in Squares \ FullSquares
    THEN {0} \cup {TestWrites[k][1] : k \in {n \in 1..Len(TestWrites) : TestWrites[n][2] = index}}
    ELSE IF index \in FullSquares THEN 0..MaxValue
    ELSE {0, MaxValue}

\* the board after QuadBoard::empty(); nothing is being decoded
QBInit ==
    /\ sqPc = "idle"
    /\ sqOrigin = <<>>
    /\ sqText = <<>>
    /\ sqResult = <<>>
    /\ fdText = <<>>
    /\ fdResult = <<>>
    /\ fdPc = "idle"
    /\ iterKind = "idle"
    /\ iter = <<>>
    /\ yielded = <<>>
    /\ collected = <<>>
    /\ position = <<{}, {}, {}, {}>>
    /\ rawChannels = <<{}, {}, {}, {}>>
    /\ tryWriteResult = <<>>
    /\ channels = empty
    /\ written = [j \in Bits64 |-> 0]
    /\ lastRead = <<>>
    /\ panicked = FALSE
    /\ lastCall = <<>>
    /\ fenText = <<>>
    /\ fenRecord = <<>>
    /\ fenResult = <<>>
    /\ fenPc = "idle"
    /\ sanText = <<>>
    /\ sanResult = <<>>
    /\ sanPc = "idle"
    /\ pieceByte = 0
    /\ pieceOrigin = <<>>
    /\ pieceResult = <<>>
    /\ piecePc = "idle"

\* QuadBoard::write without its assertions and without encode's test
Write_unchecked(value, index) ==
    /\ ~panicked
    /\ channels' = set_unchecked(channels, encode(value), index)
    /\ written' = [written EXCEPT ![index % 64] = value % 16]
    /\ UNCHANGED panicked
    /\ lastCall' = [op |-> "write", value |-> value, index |-> index, unchecked |-> TRUE]
    /\ lastRead' = <<>>
    /\ UNCHANGED <<fenVars, sanVars, pieceVars, squareVars, fenDataVars, iterVars, storeVars>>

\* QuadBoard::write
Write(value, index) ==
    /\ ~panicked
    /\ IF encode_panics(value) \/ ~(encode(value) < 16) \/ ~(index < 64)
       THEN /\ panicked' = TRUE
            /\ lastCall' = [op |-> "write", value |-> value, index |-> index,
                            unchecked |-> FALSE]
            /\ UNCHANGED <<channels, written>>
       ELSE /\ channels' = set_unchecked(channels, encode(value), index)
            /\ lastCall' = [op |-> "write", value |-> value, index |-> index,
                            unchecked |-> TRUE]
            /\ written' = [written EXCEPT ![index] = value]
            /\ UNCHANGED panicked
    /\ lastRead' = <<>>
    /\ UNCHANGED <<fenVars, sanVars, pieceVars, squareVars, fenDataVars, iterVars, storeVars>>

\* QuadBoard::read
Read(index) ==
    /\ ~panicked
    /\ IF ~(index < 64)
       THEN /\ panicked' = TRUE
            /\ lastCall' = [op |-> "read", value |-> 0, index |-> index, unchecked |-> FALSE]
            /\ lastRead' = <<>>
       ELSE /\ lastRead' = <<index, decode(get_unchecked(channels, index))>>
            /\ lastCall' = [op |-> "read", value |-> 0, index |-> index, unchecked |-> TRUE]
            /\ UNCHANGED panicked
    /\ UNCHANGED <<channels, written>>
    /\ UNCHANGED <<fenVars, sanVars, pieceVars, squareVars, fenDataVars, iterVars, storeVars>>

QBNext ==
    \/ \E index \in Indices : \E value \in ValuesAt(index) : Write(value, index)
    \/ \E index \in Indices : Read(index)

SpecQB == QBInit /\ [][QBNext]_vars

----------------------------------------------------------------------------
(* Parser combinators as the FEN decoder uses them (src/src/io/fen.rs).     *)
(* A parser takes a text and returns [ok |-> TRUE, val, tail] or Fail.      *)

Fail == [ok |-> FALSE]
Ok(val, tail) == [ok |-> TRUE, val |-> val, tail |-> tail]

Drop(text, n) == SubSeq(text, n + 1, Len(text))

\* F applied to the value of v, v being evaluated once (a let binding of the
\* code whose value is used more than once)
Bind(v, F(_)) == CHOOSE y \in {F(x) : x \in {v}} : TRUE

\* the index of the first character of text in seps, 0 if there is none
RECURSIVE FirstIn(_, _, _)
FirstIn(text, seps, k) ==
    IF k > Len(text) THEN 0
    ELSE IF text[k] \in seps THEN k ELSE FirstIn(text, seps, k + 1)

\* the parts of text between single separators of seps (empty parts kept)
RECURSIVE Split(_, _)
Split(text, seps) ==
    Bind(<<text, FirstIn(text, seps, 1)>>,
         LAMBDA a : IF a[2] = 0 THEN <<a[1]>>
                    ELSE <<SubSeq(a[1], 1, a[2] - 1)>> \o Split(Drop(a[1], a[2]), seps))

DigitChars == <<"0", "1", "2", "3", "4", "5", "6", "7", "8", "9">>
FileChars == <<"a", "b", "c", "d", "e", "f", "g", "h">>
IndexIn(seq, c) == CHOOSE k \in 1..Len(seq) : seq[k] = c
IsDigit(c) == \E k \in 1..Len(DigitChars) : DigitChars[k] = c

\* c as u8, for the characters the decoder converts: '0' is 48, 'a' is 97
AsciiCode(c) == IF IsDigit(c) THEN 47 + IndexIn(DigitChars, c)
                ELSE 96 + IndexIn(FileChars, c)

\* one_of(set)
one_of(set, source) ==
    IF source # <<>> /\ Head(source) \in set
    THEN Ok(Head(source), Tail(source)) ELSE Fail

\* tag(t)
tag(t, source) ==
    IF Len(source) >= Len(t) /\ SubSeq(source, 1, Len(t)) = t
    THEN Ok(t, Drop(source, Len(t))) ELSE Fail

\* how many leading characters of source lie in set
RECURSIVE PrefixLen(_, _)
PrefixLen(set, source) ==
    IF source = <<>> \/ Head(source) \notin set THEN 0
    ELSE 1 + PrefixLen(set, Tail(source))

\* space1: one or more spaces or tabs
space1(source) ==
    LET n == PrefixLen({" ", "\t"}, source)
    IN  IF n = 0 THEN Fail ELSE Ok(SubSeq(source, 1, n), Drop(source, n))

\* eof
eof(source) == IF source = <<>> THEN Ok(<<>>, source) ELSE Fail

\* character::complete::u8 and u16: decimal digits, an error on overflow
RECURSIVE uint_digits(_, _, _)
uint_digits(source, value, max) ==
    IF source = <<>> \/ ~IsDigit(Head(source)) THEN Ok(value, source)
    ELSE Bind(value * 10 + (IndexIn(DigitChars, Head(source)) - 1),
              LAMBDA v : IF v > max THEN Fail ELSE uint_digits(Tail(source), v, max))

uint(source, max) ==
    IF source = <<>> \/ ~IsDigit(Head(source)) THEN Fail
    ELSE uint_digits(source, 0, max)

U8Max == 255
U16Max == 65535

----------------------------------------------------------------------------
(* The FEN grammar (src/src/io/fen.rs) *)

Digits18 == {"1", "2", "3", "4", "5", "6", "7", "8"}
PieceLetters == {"p", "n", "b", "r", "q", "k", "P", "N", "B", "R", "Q", "K"}

\* digit18
digit18(source) == one_of(Digits18, source)

\* piece
piece(source) == one_of(PieceLetters, source)

\* the match of rank(): a piece letter to its StandardPiece
StandardPieceOf(c) ==
    CASE c = "p" -> "BlackPawn"   [] c = "n" -> "BlackKnight"
      [] c = "b" -> "BlackBishop" [] c = "r" -> "BlackRook"
      [] c = "q" -> "BlackQueen"  [] c = "k" -> "BlackKing"
      [] c = "P" -> "WhitePawn"   [] c = "N" -> "WhiteKnight"
      [] c = "B" -> "WhiteBishop" [] c = "R" -> "WhiteRook"
      [] c = "Q" -> "WhiteQueen"  [] c = "K" -> "WhiteKing"

\* alt((digit18, piece))
digit18_or_piece(source) ==
    Bind(digit18(source), LAMBDA d : IF d.ok THEN d ELSE piece(source))

\* many_m_n(1, 8, alt((digit18, piece)))
RECURSIVE many_chars(_, _, _)
many_chars(source, acc, max) ==
    IF Len(acc) = max THEN Ok(acc, source)
    ELSE Bind(digit18_or_piece(source),
              LAMBDA r : IF r.ok THEN many_chars(r.tail, Append(acc, r.val), max)
                         ELSE IF Len(acc) < 1 THEN Fail ELSE Ok(acc, source))

\* the closure of rank()'s verify: the widths of the characters, summed in u8
RECURSIVE rank_width(_)
rank_width(chars) ==
    IF chars = <<>> THEN 0
    ELSE (IF Head(chars) \in Digits18 THEN AsciiCode(Head(chars)) - 48 ELSE 1)
         + rank_width(Tail(chars))

\* the for loop of rank(): pieces is written at index and index advances
RECURSIVE rank_fill(_, _, _)
rank_fill(chars, pieces, index) ==
    IF chars = <<>> THEN pieces
    ELSE IF Head(chars) \in Digits18
    THEN Bind(<<AsciiCode(Head(chars)) - 48, pieces, index>>,
              LAMBDA a : rank_fill(Tail(chars),
                                   [k \in 1..8 |-> IF a[3] <= k - 1 /\ k - 1 < a[3] + a[1]
                                                   THEN "None" ELSE a[2][k]],
                                   a[3] + a[1]))
    ELSE Bind(<<StandardPieceOf(Head(chars)), pieces, index>>,
              LAMBDA a : rank_fill(Tail(chars), [a[2] EXCEPT ![a[3] + 1] = a[1]], a[3] + 1))

\* rank without its verify: the widths of the characters are not summed
rank_unverified(source) ==
    Bind(many_chars(source, <<>>, 8),
         LAMBDA r : IF ~r.ok THEN Fail
                    ELSE Ok(rank_fill(r.val, [k \in 1..8 |-> "None"], 0), r.tail))

\* rank
rank(source) ==
    Bind(many_chars(source, <<>>, 8),
         LAMBDA r : IF ~r.ok \/ rank_width(r.val) # 8 THEN Fail
                    ELSE Ok(rank_fill(r.val, [k \in 1..8 |-> "None"], 0), r.tail))

\* separated_list1(tag("/"), rank), after its first element
RECURSIVE rank_list(_, _)
rank_list(source, res) ==
    Bind(tag(<<"/">>, source),
         LAMBDA sep :
             IF ~sep.ok THEN Ok(res, source)
             ELSE Bind(<<rank(sep.tail), res>>,
                       LAMBDA a : IF ~a[1].ok THEN Ok(a[2], source)
                                  ELSE rank_list(a[1].tail, Append(a[2], a[1].val))))

RECURSIVE Reverse(_)
Reverse(seq) == IF seq = <<>> THEN <<>> ELSE Append(Reverse(Tail(seq)), Head(seq))

RECURSIVE Flatten(_)
Flatten(seqs) == IF seqs = <<>> THEN <<>> ELSE Head(seqs) \o Flatten(Tail(seqs))

\* piece_placement: pieces[i] of the code is val[i + 1] here
separated_ranks(source) ==
    Bind(rank(source),
         LAMBDA first : IF first.ok THEN rank_list(first.tail, <<first.val>>) ELSE Fail)

\* piece_placement without files.reverse(): rank 8 lands on squares 0..7
piece_placement_unreversed(source) ==
    Bind(separated_ranks(source),
         LAMBDA files : IF ~files.ok \/ Len(files.val) # 8 THEN Fail
                        ELSE Ok(Flatten(files.val), files.tail))

piece_placement(source) ==
    Bind(separated_ranks(source),
         LAMBDA files : IF ~files.ok \/ Len(files.val) # 8 THEN Fail
                        ELSE Ok(Flatten(Reverse(files.val)), files.tail))

\* side_to_move with the arms of its match exchanged
side_to_move_exchanged(source) ==
    Bind(one_of({"w", "b"}, source),
         LAMBDA r : IF ~r.ok THEN Fail
                    ELSE Ok(IF r.val = "w" THEN "Black" ELSE "White", r.tail))

\* side_to_move
side_to_move(source) ==
    Bind(one_of({"w", "b"}, source),
         LAMBDA r : IF ~r.ok THEN Fail
                    ELSE Ok(IF r.val = "w" THEN "White" ELSE "Black", r.tail))

\* the tags of castling_ability with the shortest first: alt then stops at a
\* prefix of the field
CastlingTags_shortest_first ==
    << <<"-">>, <<"K">>, <<"Q">>, <<"k">>, <<"q">>, <<"K", "Q">>, <<"K", "k">>,
       <<"K", "q">>, <<"Q", "k">>, <<"Q", "q">>, <<"k", "q">>, <<"K", "Q", "k">>,
       <<"K", "Q", "q">>, <<"K", "k", "q">>, <<"Q", "k", "q">>,
       <<"K", "Q", "k", "q">> >>

\* the tags of castling_ability, in the order alt tries them
CastlingTags ==
    << <<"-">>, <<"K", "Q", "k", "q">>, <<"Q", "k", "q">>, <<"K", "k", "q">>,
       <<"K", "Q", "q">>, <<"K", "Q", "k">>, <<"k", "q">>, <<"Q", "q">>,
       <<"Q", "k">>, <<"K", "q">>, <<"K", "k">>, <<"K", "Q">>, <<"q">>, <<"k">>,
       <<"Q">>, <<"K">> >>

Permissions(wk, wq, bk, bq) ==
    [white_king_side |-> wk, white_queen_side |-> wq,
     black_king_side |-> bk, black_queen_side |-> bq]

\* the match of castling_ability: the matched tag to its permissions
CastlingOf(permissions) ==
    CASE permissions = <<"-">> -> Permissions(FALSE, FALSE, FALSE, FALSE)
      [] permissions = <<"K">> -> Permissions(TRUE, FALSE, FALSE, FALSE)
      [] permissions = <<"Q">> -> Permissions(FALSE, TRUE, FALSE, FALSE)
      [] permissions = <<"k">> -> Permissions(FALSE, FALSE, TRUE, FALSE)
      [] permissions = <<"q">> -> Permissions(FALSE, FALSE, FALSE, TRUE)
      [] permissions = <<"K", "Q">> -> Permissions(TRUE, TRUE, FALSE, FALSE)
      [] permissions = <<"K", "k">> -> Permissions(TRUE, FALSE, TRUE, FALSE)
      [] permissions = <<"K", "q">> -> Permissions(TRUE, FALSE, FALSE, TRUE)
      [] permissions = <<"Q", "k">> -> Permissions(FALSE, TRUE, TRUE, FALSE)
      [] permissions = <<"Q", "q">> -> Permissions(FALSE, TRUE, FALSE, TRUE)
      [] permissions = <<"k", "q">> -> Permissions(FALSE, FALSE, TRUE, TRUE)
      [] permissions = <<"K", "Q", "k">> -> Permissions(TRUE, TRUE, TRUE, FALSE)
      [] permissions = <<"K", "Q", "q">> -> Permissions(TRUE, TRUE, FALSE, TRUE)
      [] permissions = <<"K", "k", "q">> -> Permissions(TRUE, FALSE, TRUE, TRUE)
      [] permissions = <<"Q", "k", "q">> -> Permissions(FALSE, TRUE, TRUE, TRUE)
      [] permissions = <<"K", "Q", "k", "q">> -> Permissions(TRUE, TRUE, TRUE, TRUE)

\* alt over CastlingTags from the k-th tag on: the first tag that matches
RECURSIVE alt_tags(_, _)
alt_tags(source, k) ==
    IF k > Len(CastlingTags) THEN Fail
    ELSE Bind(tag(CastlingTags[k], source),
              LAMBDA r : IF r.ok THEN r ELSE alt_tags(source, k + 1))

\* castling_ability
castling_ability(source) ==
    Bind(alt_tags(source, 1),
         LAMBDA r : IF ~r.ok THEN Fail ELSE Ok(CastlingOf(r.val), r.tail))

\* pair(one_of("abcdefgh"), one_of("36"))
ep_square(source) ==
    Bind(one_of({FileChars[k] : k \in 1..8}, source),
         LAMBDA file :
             IF ~file.ok THEN Fail
             ELSE Bind(one_of({"3", "6"}, file.tail),
                       LAMBDA rnk : IF ~rnk.ok THEN Fail
                                    ELSE Ok(<<file.val, rnk.val>>, rnk.tail)))

\* the match of en_passant_target_square with the offsets of ranks 4 and 7
ep_index_rank_above(file, rnk) ==
    LET rank_offset == IF rnk = "3" THEN 24 ELSE 48
        file_offset == AsciiCode(file) - 97
    IN  rank_offset + file_offset

\* the match of en_passant_target_square on a parsed square
ep_index(file, rnk) ==
    LET rank_offset == IF rnk = "3" THEN 16 ELSE 40
        file_offset == AsciiCode(file) - 97
    IN  rank_offset + file_offset

\* en_passant_target_square: None is <<>>, Some(index) is <<index>>
en_passant_target_square(source) ==
    Bind(<<one_of({"-"}, source), ep_square(source)>>,
         LAMBDA a : IF a[1].ok THEN Ok(<<>>, a[1].tail)
                    ELSE IF ~a[2].ok THEN Fail
                    ELSE Ok(<<ep_index(a[2].val[1], a[2].val[2])>>, a[2].tail))

\* halfmove_clock with a strict bound
halfmove_clock_below_100(source) ==
    Bind(uint(source, U8Max), LAMBDA r : IF r.ok /\ r.val < 100 THEN r ELSE Fail)

\* halfmove_clock
halfmove_clock(source) ==
    Bind(uint(source, U8Max), LAMBDA r : IF r.ok /\ r.val <= 100 THEN r ELSE Fail)

\* fullmove_counter
fullmove_counter(source) == uint(source, U16Max)

\* fen_literal's tuple with success in the place of eof
tuple_parser_without_eof(k, source) ==
    CASE k = 1 -> piece_placement(source)
      [] k = 3 -> side_to_move(source)
      [] k = 5 -> castling_ability(source)
      [] k = 7 -> en_passant_target_square(source)
      [] k = 9 -> halfmove_clock(source)
      [] k = 11 -> fullmove_counter(source)
      [] k = 12 -> Ok(<<>>, source)
      [] OTHER -> space1(source)

\* the k-th parser of fen_literal's tuple
tuple_parser(k, source) ==
    CASE k = 1 -> piece_placement(source)
      [] k = 3 -> side_to_move(source)
      [] k = 5 -> castling_ability(source)
      [] k = 7 -> en_passant_target_square(source)
      [] k = 9 -> halfmove_clock(source)
      [] k = 11 -> fullmove_counter(source)
      [] k = 12 -> eof(source)
      [] OTHER -> space1(source)

\* the tuple's parse: its parsers in sequence, each on the tail the one before
\* left, the first error ending the parse
RECURSIVE tuple_parse(_, _, _)
tuple_parse(k, vals, source) ==
    IF k > 12 THEN Ok(vals, source)
    ELSE Bind(<<tuple_parser(k, source), vals>>,
              LAMBDA a : IF ~a[1].ok THEN Fail
                         ELSE tuple_parse(k + 1, Append(a[2], a[1].val), a[1].tail))

\* the Fen that fen_literal builds from the tuple's twelve values
FenOf(vals) ==
    [pieces |-> vals[1],
     side_to_move |-> vals[3],
     castling_permissions |-> vals[5],
     en_passant_square |-> vals[7],
     halfmove_clock |-> vals[9],
     fullmove_counter |-> vals[11]]

\* fen_literal
fen_literal(source) ==
    Bind(tuple_parse(1, <<>>, source),
         LAMBDA r : IF ~r.ok THEN Fail ELSE Ok(FenOf(r.val), r.tail))

\* <Fen as TryFrom<&str>>::try_from; rest is the unconsumed input, which
\* try_from drops (it returns the .1 of fen_literal's pair)
Fen_try_from(value) ==
    Bind(fen_literal(value),
         LAMBDA r : IF r.ok THEN [ok |-> TRUE, fen |-> r.val, rest |-> r.tail] ELSE Fail)

----------------------------------------------------------------------------
(* The texts handed to Fen::try_from *)

\* the longest rank text tried exhaustively over RankAlphabet
MaxRankLen == 3
\* the most ranks of a piece-placement field
MaxRanks == 9
\* the longest castling field tried exhaustively over CastlingAlphabet
MaxCastlingLen == 4
\* the largest halfmove clock written out in decimal
MaxHalfmove == 110
\* the largest fullmove counter written out in decimal
MaxFullmove == 12

\* every text over alphabet of length lo..hi
Texts(alphabet, lo, hi) == UNION {[1..n -> alphabet] : n \in lo..hi}

RECURSIVE Join(_, _)
Join(texts, sep) ==
    IF texts = <<>> THEN <<>>
    ELSE IF Len(texts) = 1 THEN texts[1]
    ELSE texts[1] \o sep \o Join(Tail(texts), sep)

\* Display for an unsigned integer
RECURSIVE DecimalText(_)
DecimalText(n) ==
    IF n < 10 THEN <<DigitChars[n + 1]>>
    ELSE Append(DecimalText(n \div 10), DigitChars[(n % 10) + 1])

\* FEN_STARTING_POSITION, its ranks as listed
StartRanks ==
    << <<"r", "n", "b", "q", "k", "b", "n", "r">>,
       <<"p", "p", "p", "p", "p", "p", "p", "p">>,
       <<"8">>,
       <<"8">>,
       <<"8">>,
       <<"8">>,
       <<"P", "P", "P", "P", "P", "P", "P", "P">>,
       <<"R", "N", "B", "Q", "K", "B", "N", "R">> >>
\* the position of index_fen_board_with_standard_index
TestRanks ==
    << <<"r", "n", "1", "k", "1", "b", "1", "r">>,
       <<"1", "p", "p", "1", "p", "p", "p", "1">>,
       <<"8">>,
       <<"p", "B", "p", "2", "b", "1", "p">>,
       <<"4", "P", "3">>,
       <<"1", "P", "5", "N">>,
       <<"P", "1", "P", "B", "2", "P", "P">>,
       <<"R", "N", "1", "Q", "1", "R", "K", "1">> >>

FenText(rankTexts, side, castling, ep, half, full) ==
    Join(<<Join(rankTexts, <<"/">>), side, castling, ep, half, full>>, <<" ">>)

\* rank texts, well-formed and not, put at two places of TestRanks at once
RankPool ==
    { <<"8">>, <<"4", "4">>, <<"1", "1", "1", "1", "1", "1", "1", "1">>, <<"r", "n", "b", "q", "k", "b", "n", "r">>, <<"p", "B", "p", "2", "b", "1", "p">>, <<"R", "3", "K", "2", "R">>, <<"7">>, <<"9">>, <<"4", "P", "4">>, <<"p", "p", "p", "p", "p", "p", "p", "p", "p">>, <<"p", "6">>, <<>> }

RankAlphabet == {"1", "3", "4", "8", "p"}
CastlingAlphabet == {"K", "Q", "k", "q", "-"}
EnPassantAlphabet ==
    {FileChars[k] : k \in 1..8} \cup {DigitChars[k] : k \in 2..9} \cup {"i", "-"}

PlacementTexts ==
    { FenText([k \in 1..8 |-> IF k = k1 THEN r1 ELSE IF k = k2 THEN r2 ELSE TestRanks[k]],
              <<"w">>, <<"K", "k", "q">>, <<"-">>, <<"3">>, <<"6">>) :
          <<k1, k2, r1, r2>> \in {q \in (1..8) \X (1..8) \X RankPool \X RankPool : q[1] < q[2]} }
    \cup
    { FenText([StartRanks EXCEPT ![k] = r], <<"b">>, <<"-">>, <<"-">>, <<"0">>, <<"1">>) :
          <<k, r>> \in {1, 5, 8} \X Texts(RankAlphabet, 0, MaxRankLen) }
    \cup
    { FenText([k \in 1..n |-> TestRanks[((k - 1) % 8) + 1]] \o extra,
              <<"w">>, <<"-">>, <<"-">>, <<"0">>, <<"1">>) :
          <<n, extra>> \in (0..MaxRanks) \X {<<>>, << <<>> >>, << <<>>, <<"8">> >>} }

FieldTexts ==
    { FenText(StartRanks, side, castling, <<"-">>, <<"0">>, <<"1">>) :
          <<side, castling>> \in {<<"w">>, <<"b">>} \X Texts(CastlingAlphabet, 0, MaxCastlingLen) }
    \cup
    { FenText(StartRanks, side, <<"K", "Q">>, <<"-">>, <<"0">>, <<"1">>) :
          side \in Texts({"w", "b", "W", "-"}, 0, 2) }
    \cup
    { FenText(StartRanks, <<"b">>, <<"K", "Q", "k", "q">>, ep, <<"0">>, <<"1">>) :
          ep \in Texts(EnPassantAlphabet, 0, 2) \cup {<<"e", "3", "3">>, <<"e", "3", "-">>} }
    \cup
    { FenText(StartRanks, <<"w">>, <<"-">>, <<"-">>, half, full) :
          <<half, full>> \in
              ({DecimalText(n) : n \in (0..MaxHalfmove) \cup {255, 256, 999}}
                  \cup {<<>>, <<"0", "0">>, <<"0", "1", "0", "0">>, <<"0", "1", "0", "1">>,
                        <<"x">>, <<"1", "x">>, <<"-", "1">>})
              \X {<<"1">>, <<"4", "2">>} }
    \cup
    { FenText(StartRanks, <<"w">>, <<"-">>, <<"-">>, half, full) :
          <<half, full>> \in
              {<<"0">>, <<"1", "0", "0">>}
              \X ({DecimalText(n) : n \in (0..MaxFullmove) \cup {65535, 65536, 70000}}
                  \cup {<<>>, <<"0", "0">>, <<"0", "1">>, <<"x">>, <<"1", "x">>, <<"-", "1">>}) }

\* the six fields of the starting position and two more
SpareFields ==
    << Join(StartRanks, <<"/">>), <<"w">>, <<"K", "Q", "k", "q">>, <<"-">>, <<"0">>, <<"1">>,
       <<"1">>, <<"x">> >>
Separators == {<<" ">>, <<" ", " ">>, <<"\t">>, <<" ", "\t">>}

StructureTexts ==
    { Join(SubSeq(SpareFields, 1, n), sep) : <<n, sep>> \in (0..8) \X Separators }
    \cup
    { lead \o Join(SubSeq(SpareFields, 1, 6), <<" ">>) \o trail :
          <<lead, trail>> \in {<<>>, <<" ">>}
              \X {<<>>, <<" ">>, <<"\t">>, <<" ", " ">>, <<"x">>, <<" ", "x">>, <<"!">>,
                  <<"/">>, <<".", "5">>} }
    \cup
    { Join(SubSeq(SpareFields, 1, k), <<" ">>) \o sep \o Join(SubSeq(SpareFields, k + 1, 6), <<" ">>) :
          <<k, sep>> \in (1..5) \X (Separators \cup {<<>>, <<"/">>, <<",">>, <<"\t", "\t">>}) }

TextInputs == PlacementTexts \cup FieldTexts \cup StructureTexts

\* boards for position records: pieces[i] of the code is board[i + 1]
Boards ==
    { Flatten(<< <<"WhiteRook", "WhiteKnight", "WhiteBishop", "WhiteQueen", "WhiteKing", "WhiteBishop", "WhiteKnight", "WhiteRook">>,
       <<"WhitePawn", "WhitePawn", "WhitePawn", "WhitePawn", "WhitePawn", "WhitePawn", "WhitePawn", "WhitePawn">>,
       <<"None", "None", "None", "None", "None", "None", "None", "None">>,
       <<"None", "None", "None", "None", "None", "None", "None", "None">>,
       <<"None", "None", "None", "None", "None", "None", "None", "None">>,
       <<"None", "None", "None", "None", "None", "None", "None", "None">>,
       <<"BlackPawn", "BlackPawn", "BlackPawn", "BlackPawn", "BlackPawn", "BlackPawn", "BlackPawn", "BlackPawn">>,
       <<"BlackRook", "BlackKnight", "BlackBishop", "BlackQueen", "BlackKing", "BlackBishop", "BlackKnight", "BlackRook">> >>),
      Flatten(<< <<"WhiteRook", "WhiteKnight", "None", "WhiteQueen", "None", "WhiteRook", "WhiteKing", "None">>,
       <<"WhitePawn", "None", "WhitePawn", "WhiteBishop", "None", "None", "WhitePawn", "WhitePawn">>,
       <<"None", "WhitePawn", "None", "None", "None", "None", "None", "WhiteKnight">>,
       <<"None", "None", "None", "None", "WhitePawn", "None", "None", "None">>,
       <<"BlackPawn", "WhiteBishop", "BlackPawn", "None", "None", "BlackBishop", "None", "BlackPawn">>,
       <<"None", "None", "None", "None", "None", "None", "None", "None">>,
       <<"None", "BlackPawn", "BlackPawn", "None", "BlackPawn", "BlackPawn", "BlackPawn", "None">>,
       <<"BlackRook", "BlackKnight", "None", "BlackKing", "None", "BlackBishop", "None", "BlackRook">> >>),
      Flatten(<< <<"WhiteKing", "None", "None", "None", "None", "None", "None", "None">>,
       <<"None", "None", "None", "None", "None", "None", "WhiteRook", "None">>,
       <<"None", "BlackKnight", "None", "WhiteKnight", "None", "BlackBishop", "None", "WhiteBishop">>,
       <<"None", "None", "None", "BlackQueen", "WhiteQueen", "None", "None", "None">>,
       <<"None", "None", "None", "None", "None", "None", "None", "None">>,
       <<"BlackPawn", "None", "BlackPawn", "None", "BlackPawn", "None", "BlackPawn", "None">>,
       <<"None", "WhitePawn", "None", "None", "None", "None", "None", "None">>,
       <<"None", "None", "None", "None", "None", "None", "None", "BlackKing">> >>),
      [i \in 1..64 |-> "None"] }

----------------------------------------------------------------------------
(* The FEN encoder. The repository has none: this is the encode contract of *)
(* the specification (section 4.2), the inverse direction of the decoder.   *)

PieceLetterOf(p) ==
    CASE p = "BlackPawn" -> "p"   [] p = "BlackKnight" -> "n"
      [] p = "BlackBishop" -> "b" [] p = "BlackRook" -> "r"
      [] p = "BlackQueen" -> "q"  [] p = "BlackKing" -> "k"
      [] p = "WhitePawn" -> "P"   [] p = "WhiteKnight" -> "N"
      [] p = "WhiteBishop" -> "B" [] p = "WhiteRook" -> "R"
      [] p = "WhiteQueen" -> "Q"  [] p = "WhiteKing" -> "K"

\* one rank with maximal digit compaction; run is the pending count of empties
RECURSIVE RankText(_, _)
RankText(row, run) ==
    LET flush == IF run = 0 THEN <<>> ELSE <<DigitChars[run + 1]>>
    IN  IF row = <<>> THEN flush
        ELSE IF Head(row) = "None" THEN RankText(Tail(row), run + 1)
        ELSE flush \o <<PieceLetterOf(Head(row))>> \o RankText(Tail(row), 0)

CastlingText(c) ==
    LET t == (IF c.white_king_side THEN <<"K">> ELSE <<>>)
             \o (IF c.white_queen_side THEN <<"Q">> ELSE <<>>)
             \o (IF c.black_king_side THEN <<"k">> ELSE <<>>)
             \o (IF c.black_queen_side THEN <<"q">> ELSE <<>>)
    IN  IF t = <<>> THEN <<"-">> ELSE t

SquareText(ep) ==
    IF ep = <<>> THEN <<"-">>
    ELSE <<FileChars[(ep[1] % 8) + 1], DigitChars[(ep[1] \div 8) + 2]>>

fen_encode(p) ==
    FenText([k \in 1..8 |-> RankText(SubSeq(p.pieces, 8 * (8 - k) + 1, 8 * (8 - k) + 8), 0)],
            IF p.side_to_move = "White" THEN <<"w">> ELSE <<"b">>,
            CastlingText(p.castling_permissions),
            SquareText(p.en_passant_square),
            DecimalText(p.halfmove_clock),
            DecimalText(p.fullmove_counter))

\* valid position records: the en-passant square on rank 3 or 6, the halfmove
\* clock in 0..100, the fullmove counter at least 1
Records ==
    { [pieces |-> b, side_to_move |-> s,
       castling_permissions |-> Permissions(c[1], c[2], c[3], c[4]),
       en_passant_square |-> ep, halfmove_clock |-> n[1], fullmove_counter |-> n[2]] :
          <<b, s, c, ep, n>> \in
              Boards \X {"White", "Black"} \X (BOOLEAN \X BOOLEAN \X BOOLEAN \X BOOLEAN)
              \X ({<<>>} \cup {<<i>> : i \in {16, 20, 23, 40, 42, 47}})
              \X {<<0, 1>>, <<50, 10>>, <<100, 65535>>} }

----------------------------------------------------------------------------
(* Decoding a text, and encoding then decoding a record *)

\* a text or a record is given and nothing is decoded yet; the board is not
\* used
FenInit ==
    /\ sqPc = "idle"
    /\ sqOrigin = <<>>
    /\ sqText = <<>>
    /\ sqResult = <<>>
    /\ fdText = <<>>
    /\ fdResult = <<>>
    /\ fdPc = "idle"
    /\ iterKind = "idle"
    /\ iter = <<>>
    /\ yielded = <<>>
    /\ collected = <<>>
    /\ position = <<{}, {}, {}, {}>>
    /\ rawChannels = <<{}, {}, {}, {}>>
    /\ tryWriteResult = <<>>
    /\ channels = empty
    /\ written = [j \in Bits64 |-> 0]
    /\ lastRead = <<>>
    /\ panicked = FALSE
    /\ lastCall = <<>>
    /\ sanText = <<>>
    /\ sanResult = <<>>
    /\ sanPc = "idle"
    /\ pieceByte = 0
    /\ pieceOrigin = <<>>
    /\ pieceResult = <<>>
    /\ piecePc = "idle"
    /\ fenResult = Fail
    /\ \/ /\ fenPc = "text"
          /\ fenText \in TextInputs
          /\ fenRecord = <<>>
       \/ /\ fenPc = "record"
          /\ fenRecord \in {<<p>> : p \in Records}
          /\ fenText = <<>>

EncodeRecord ==
    /\ fenPc = "record"
    /\ fenText' = fen_encode(fenRecord[1])
    /\ fenPc' = "text"
    /\ UNCHANGED <<fenRecord, fenResult>>
    /\ UNCHANGED <<qbVars, sanVars, pieceVars, squareVars, fenDataVars, iterVars, storeVars>>

\* Fen::try_from(fenText)
DecodeText ==
    /\ fenPc = "text"
    /\ fenResult' = Fen_try_from(fenText)
    /\ fenPc' = "done"
    /\ UNCHANGED <<fenText, fenRecord>>
    /\ UNCHANGED <<qbVars, sanVars, pieceVars, squareVars, fenDataVars, iterVars, storeVars>>

FenNext == EncodeRecord \/ DecodeText

SpecFen == FenInit /\ [][FenNext]_vars

----------------------------------------------------------------------------
(* The SAN decoder (src/src/io/san.rs). A parser here has three outcomes:   *)
(* Ok, nom's Err::Error (Fail), and nom's Err::Failure, which opt and alt   *)
(* pass on instead of recovering from.                                      *)

\* Err(nom::Err::Failure(..))
Failure == [ok |-> FALSE, failure |-> TRUE]
IsFailure(r) == ~r.ok /\ "failure" \in DOMAIN r

\* opt(p) on the result r of p at source: None is <<>>, Some(v) is <<v>>
opt(r, source) ==
    IF r.ok THEN Ok(<<r.val>>, r.tail)
    ELSE IF IsFailure(r) THEN r
    ELSE Ok(<<>>, source)

\* cut(p) on the result of p
cut(r) == IF r.ok THEN r ELSE Failure

\* the characters of one_of("xX..:") in capture; the two characters between X
\* and : are U+00C3 and U+2014, written here by their code points
CaptureChars == {"x", "X", "U+00C3", "U+2014", ":"}

\* the mapping with the two mixed annotations exchanged
SuffixAnnotationOf_mixed_exchanged(first, second) ==
    CASE first = <<>> /\ second = <<>> -> <<>>
      [] first = <<"?">> /\ second = <<>> -> <<"Hook">>
      [] first = <<"!">> /\ second = <<>> -> <<"Bang">>
      [] first = <<"?">> /\ second = <<"?">> -> <<"HookHook">>
      [] first = <<"?">> /\ second = <<"!">> -> <<"BangHook">>
      [] first = <<"!">> /\ second = <<"!">> -> <<"BangBang">>
      [] first = <<"!">> /\ second = <<"?">> -> <<"HookBang">>

\* the mapping of annotation's match
SuffixAnnotationOf(first, second) ==
    CASE first = <<>> /\ second = <<>> -> <<>>
      [] first = <<"?">> /\ second = <<>> -> <<"Hook">>
      [] first = <<"!">> /\ second = <<>> -> <<"Bang">>
      [] first = <<"?">> /\ second = <<"?">> -> <<"HookHook">>
      [] first = <<"?">> /\ second = <<"!">> -> <<"HookBang">>
      [] first = <<"!">> /\ second = <<"!">> -> <<"BangBang">>
      [] first = <<"!">> /\ second = <<"?">> -> <<"BangHook">>

\* annotation
annotation(source) ==
    Bind(opt(one_of({"!", "?"}, source), source),
         LAMBDA first :
             Bind(opt(one_of({"!", "?"}, first.tail), first.tail),
                  LAMBDA second : Ok(SuffixAnnotationOf(first.val, second.val), second.tail)))

\* check
check(source) ==
    Bind(tag(<<"+">>, source),
         LAMBDA r : IF r.ok THEN Ok(r.val = <<"+">>, r.tail) ELSE r)

\* checkmate
checkmate(source) ==
    Bind(tag(<<"#">>, source),
         LAMBDA r : IF r.ok THEN Ok(r.val = <<"#">>, r.tail) ELSE r)

\* the match of piece
StandardPieceKindOf(c) ==
    CASE c = "K" -> "King" [] c = "Q" -> "Queen" [] c = "B" -> "Bishop"
      [] c = "N" -> "Knight" [] c = "R" -> "Rook"

\* piece (of san.rs)
san_piece(source) ==
    Bind(one_of({"K", "Q", "B", "N", "R"}, source),
         LAMBDA r : IF r.ok THEN Ok(StandardPieceKindOf(r.val), r.tail) ELSE r)

\* file
san_file(source) == one_of({FileChars[k] : k \in 1..8}, source)

\* pair(p, q) for two one_of parsers
pair_one_of(set1, set2, source) ==
    Bind(one_of(set1, source),
         LAMBDA a : IF ~a.ok THEN a
                    ELSE Bind(one_of(set2, a.tail),
                              LAMBDA b : IF ~b.ok THEN b
                                         ELSE Ok(<<a.val, b.val>>, b.tail)))

\* target
target(source) == pair_one_of({FileChars[k] : k \in 1..8}, Digits18, source)

\* the match of disambiguation_field
DisambiguationFieldOf(fileOpt, rankOpt) ==
    CASE fileOpt = <<>> /\ rankOpt = <<>> -> <<>>
      [] fileOpt # <<>> /\ rankOpt = <<>> -> << [kind |-> "FileLetter", val |-> fileOpt[1]] >>
      [] fileOpt = <<>> /\ rankOpt # <<>> -> << [kind |-> "RankDigit", val |-> rankOpt[1]] >>
      [] fileOpt # <<>> /\ rankOpt # <<>> ->
             << [kind |-> "SourceSquare", val |-> <<fileOpt[1], rankOpt[1]>>] >>

\* disambiguation_field
disambiguation_field(source) ==
    Bind(opt(san_file(source), source),
         LAMBDA f :
             Bind(opt(one_of(Digits18, f.tail), f.tail),
                  LAMBDA r : Ok(DisambiguationFieldOf(f.val, r.val), r.tail)))

\* capture
capture(source) == one_of(CaptureChars, source)

\* promotion reading any piece letter after the =
promotion_any_piece(source) ==
    Bind(tag(<<"=">>, source),
         LAMBDA eq :
             IF ~eq.ok THEN eq
             ELSE Bind(cut(one_of({"K", "Q", "B", "N", "R"}, eq.tail)),
                       LAMBDA r : IF r.ok THEN Ok(StandardPieceKindOf(r.val), r.tail) ELSE r))

\* promotion: preceded(tag("="), cut(one_of("RNBQ")))
promotion(source) ==
    Bind(tag(<<"=">>, source),
         LAMBDA eq :
             IF ~eq.ok THEN eq
             ELSE Bind(cut(one_of({"R", "N", "B", "Q"}, eq.tail)),
                       LAMBDA r : IF r.ok THEN Ok(StandardPieceKindOf(r.val), r.tail) ELSE r))

\* a tuple's remaining parsers are run only on an Ok: r is the result so far
\* and Then(r) the rest of the tuple
then(r, Then(_)) == IF r.ok THEN Bind(r, Then) ELSE r

\* abbreviated_pawn_move
abbreviated_pawn_move(source) ==
    then(san_file(source), LAMBDA src :
    then(opt(capture(src.tail), src.tail), LAMBDA cap :
    then(san_file(cap.tail), LAMBDA tgt :
    then(opt(promotion(tgt.tail), tgt.tail), LAMBDA promo :
        Ok([kind |-> "AbbreviatedPawnMove",
            source_rank |-> src.val,
            target_rank |-> tgt.val,
            is_capture |-> cap.val # <<>>,
            promotion_piece |-> promo.val], promo.tail)))))

\* pair(file, capture)
file_capture(source) ==
    then(san_file(source), LAMBDA f :
    then(capture(f.tail), LAMBDA c : Ok(<<f.val, c.val>>, c.tail)))

\* pawn_move
pawn_move(source) ==
    then(opt(file_capture(source), source), LAMBDA block :
    then(target(block.tail), LAMBDA tgt :
    then(opt(promotion(tgt.tail), tgt.tail), LAMBDA promo :
        Ok([kind |-> "PawnMove",
            target |-> tgt.val,
            is_capture |-> block.val # <<>>,
            capture_rank |-> IF block.val = <<>> THEN <<>> ELSE <<block.val[1][1]>>,
            promotion_piece |-> promo.val], promo.tail))))

\* the tags of castle_move with the two-part forms first
CastleTags_two_part_first ==
    << <<"0", "-", "0">>, <<"O", "-", "O">>,
       <<"0", "-", "0", "-", "0">>, <<"O", "-", "O", "-", "O">> >>

\* the tags of castle_move, in the order alt tries them
CastleTags == << <<"0", "-", "0", "-", "0">>, <<"O", "-", "O", "-", "O">>,
                 <<"0", "-", "0">>, <<"O", "-", "O">> >>

\* alt over tags from the k-th on
RECURSIVE alt_of_tags(_, _, _)
alt_of_tags(tags, source, k) ==
    IF k > Len(tags) THEN Fail
    ELSE Bind(tag(tags[k], source),
              LAMBDA r : IF r.ok THEN r ELSE alt_of_tags(tags, source, k + 1))

\* the match of castle_move
CastleMoveOf(castle) ==
    CASE castle \in {<<"O", "-", "O", "-", "O">>, <<"0", "-", "0", "-", "0">>} -> "QueenSide"
      [] castle \in {<<"O", "-", "O">>, <<"0", "-", "0">>} -> "KingSide"

\* castle_move
castle_move(source) ==
    then(alt_of_tags(CastleTags, source, 1), LAMBDA r :
        Ok([kind |-> "CastleMove", side |-> CastleMoveOf(r.val)], r.tail))

\* the tuple of normal_move, its second parser being disambiguation_field
\* (ambiguous) or success(None)
normal_move_tuple(source, ambiguous) ==
    then(san_piece(source), LAMBDA p :
    then(IF ambiguous THEN disambiguation_field(p.tail) ELSE Ok(<<>>, p.tail), LAMBDA d :
    then(opt(capture(d.tail), d.tail), LAMBDA cap :
    then(target(cap.tail), LAMBDA tgt :
        Ok([kind |-> "NormalMove",
            piece |-> p.val,
            disambiguation_field |-> d.val,
            target |-> tgt.val,
            is_capture |-> cap.val # <<>>], tgt.tail)))))

\* alt((p, q)) on the result r of p: q is tried on an Err::Error only
alt2(r, Q(_), source) == IF r.ok \/ IsFailure(r) THEN r ELSE Q(source)

\* normal_move with the two arms of its alt exchanged
normal_move_unambiguous_first(source) ==
    alt2(normal_move_tuple(source, FALSE),
         LAMBDA src : normal_move_tuple(src, TRUE), source)

\* normal_move
normal_move(source) ==
    alt2(normal_move_tuple(source, TRUE),
         LAMBDA src : normal_move_tuple(src, FALSE), source)

\* the alt of san_literal with pawn_move tried before abbreviated_pawn_move
san_data_pawn_first(source) ==
    alt2(castle_move(source), LAMBDA s1 :
    alt2(pawn_move(s1), LAMBDA s2 :
    alt2(abbreviated_pawn_move(s2), normal_move, s2), s1), source)

\* alt((castle_move, abbreviated_pawn_move, pawn_move, normal_move))
san_data(source) ==
    alt2(castle_move(source), LAMBDA s1 :
    alt2(abbreviated_pawn_move(s1), LAMBDA s2 :
    alt2(pawn_move(s2), normal_move, s2), s1), source)

\* permutation((opt(check), opt(checkmate))): each round applies the first
\* parser not yet applied that succeeds on the input; c and m are its results
\* so far, <<>> when not yet applied
RECURSIVE permutation(_, _, _)
permutation(source, c, m) ==
    Bind(<<opt(check(source), source), opt(checkmate(source), source)>>,
         LAMBDA r :
             IF c = <<>> /\ r[1].ok THEN permutation(r[1].tail, <<r[1].val>>, m)
             ELSE IF m = <<>> /\ r[2].ok THEN permutation(r[2].tail, c, <<r[2].val>>)
             ELSE IF c = <<>> \/ m = <<>> THEN Fail
             ELSE Ok(<<c[1], m[1]>>, source))

\* rest
rest(source) == Ok(source, <<>>)

\* san_literal without the test of rest
san_literal_rest_ignored(source) ==
    then(san_data(source), LAMBDA data :
    then(opt(permutation(data.tail, <<>>, <<>>), data.tail), LAMBDA check_state :
    then(annotation(check_state.tail), LAMBDA ann :
    then(rest(ann.tail), LAMBDA rst :
        Ok([data |-> data.val,
            annotation |-> ann.val,
            is_check |-> check_state.val # <<>> /\ check_state.val[1][1] # <<>>,
            is_checkmate |-> check_state.val # <<>> /\ check_state.val[1][2] # <<>>],
           rst.tail)))))

\* san_literal
san_literal(source) ==
    then(san_data(source), LAMBDA data :
    then(opt(permutation(data.tail, <<>>, <<>>), data.tail), LAMBDA check_state :
    then(annotation(check_state.tail), LAMBDA ann :
    then(rest(ann.tail), LAMBDA rst :
        IF Len(rst.val) > 0 THEN Failure
        ELSE Ok([data |-> data.val,
                 annotation |-> ann.val,
                 is_check |-> check_state.val # <<>> /\ check_state.val[1][1] # <<>>,
                 is_checkmate |-> check_state.val # <<>> /\ check_state.val[1][2] # <<>>],
                rst.tail)))))

\* <San as TryFrom<&str>>::try_from
San_try_from(value) ==
    Bind(san_literal(value),
         LAMBDA r : IF r.ok THEN [ok |-> TRUE, san |-> r.val] ELSE Fail)

----------------------------------------------------------------------------
(* The texts handed to San::try_from *)

\* the longest text tried exhaustively over SanAlphabet
MaxSanLen == 3
\* the most check and checkmate markers after a core move
MaxMarkers == 2
\* the most annotation characters after the markers
MaxAnnotationLen == 3

SanAlphabet == {"a", "e", "4", "8", "N", "Q", "x", "=", "+", "#", "!", "?"}

\* the literals of the tests of san.rs and of the specification's examples
SanTestTexts ==
    { <<"e", "5">>, <<"K", "x", "d", "3", "?", "?">>,
      <<"f", "x", "g", "=", "Q", "+", "#", "!">>, <<"0", "-", "0">>, <<"O", "-", "O">>,
      <<"0", "-", "0", "-", "0">>, <<"O", "-", "O", "-", "O">>, <<"a", "b">>,
      <<"d", "x", "e", "=", "R", "?", "!">>, <<"O", "-", "O", "-", "O", "#", "!">>,
      <<"f", "x", "d", "=", "+", "#", "!">>, <<"f", "d", "!", "!", "!">>, <<>>,
      <<"D", ":", "e", "7">>, <<"0", "-", "0", "-", "0", "-", "0">>,
      <<"0", "-", "0", "-", "0", "x", "!">>,
      <<"O", "-", "O", "-", "O", "#", "!", "!">>, <<"K", ":", "e", "7", "?">>,
      <<"e", "8", "=", "Q">>, <<"d", "4">>, <<"f", "g">>,
      <<"R", "g", "3", "+", "?", "!">>, <<"b", "8", "=", "R", "+", "?", "?">>,
      <<"c", "2">>, <<"N", "f", "3", "h", "4">>, <<"R", "b", "2", "x", "b", "7", "#">>,
      <<"e", "4">>, <<"N", "f", "3">>, <<"e", "x", "d", "5">>,
      <<"e", "8", "=", "Q", "+">>, <<"R", "x", "e", "7", "#", "!", "!">>,
      <<"O", "-", "O", "x", "+", "!", "!">>, <<"O", "-", "O", "-", "O", "=", "Q">>,
      <<"0", "-", "0", "=", "R", "#">>, <<"x", "O", "-", "O", "-", "O">>,
      <<"x", "0", "-", "0">>, <<"R", ":", "d", "4", "=", "Q">>, <<"K", "a", "x", "1">>,
      <<"F", "x", "e", "7">> }

\* core moves, well-formed and not, of every shape
SanCores ==
    { <<"0", "-", "0">>, <<"O", "-", "O">>, <<"0", "-", "0", "-", "0">>,
      <<"O", "-", "O", "-", "O">>, <<"0", "-", "O">>, <<"O", "-", "0", "-", "0">>,
      <<"a", "b">>, <<"f", "g">>, <<"b", "a">>, <<"h", "h">>, <<"f", "x", "g">>,
      <<"d", ":", "e">>, <<"d", "x", "e", "=", "R">>, <<"f", "x", "g", "=", "Q">>,
      <<"a", "b", "=", "N">>, <<"g", "h", "=", "B">>, <<"a", "b", "=", "K">>,
      <<"f", "x", "d", "=">>, <<"a", "b", "=">>, <<"e", "4">>, <<"e", "5">>,
      <<"d", "4">>, <<"c", "2">>, <<"a", "1">>, <<"h", "8">>, <<"e", "8", "=", "Q">>,
      <<"b", "8", "=", "R">>, <<"a", "8", "=", "N">>, <<"h", "1", "=", "B">>,
      <<"e", "8", "=", "K">>, <<"e", "8", "=", "P">>, <<"e", "8", "=">>,
      <<"e", "8", "Q">>, <<"e", "9">>, <<"i", "4">>, <<"e", "x", "d", "5">>,
      <<"b", "x", "c", "8", "=", "Q">>, <<"a", ":", "b", "3">>, <<"g", "X", "h", "6">>,
      <<"N", "f", "3">>, <<"K", "a", "1">>, <<"Q", "h", "4">>, <<"B", "c", "8">>,
      <<"R", "g", "3">>, <<"R", "x", "e", "7">>, <<"K", "x", "d", "3">>,
      <<"K", ":", "e", "7">>, <<"B", "X", "e", "7">>, <<"N", "b", "d", "2">>,
      <<"N", "b", "x", "d", "2">>, <<"N", "1", "d", "2">>, <<"R", "8", "x", "a", "3">>,
      <<"N", "f", "3", "h", "4">>, <<"R", "b", "2", "x", "b", "7">>,
      <<"Q", "a", "1", ":", "h", "8">>, <<"N", "f">>, <<"N", "3">>, <<"N", "x", "f">>,
      <<"P", "e", "4">>, <<"D", ":", "e", "7">>, <<"K", "a", "x", "1">>,
      <<"k", "e", "2">>, <<"N", "=", "Q">>, <<"N", "f", "3", "=", "Q">>,
      <<"N", "U+2014", "e", "4">>, <<"e", "U+00C3", "d">> }

SanMarkers == Texts({"+", "#"}, 0, MaxMarkers)
SanAnnotations == Texts({"!", "?"}, 0, MaxAnnotationLen)

SanInputs ==
    Texts(SanAlphabet, 0, MaxSanLen)
    \cup SanTestTexts
    \cup {c \o m \o a : <<c, m, a>> \in SanCores \X SanMarkers \X SanAnnotations}

\* a text is given and nothing is decoded yet; the board and the FEN decoder
\* are not used
SanInit ==
    /\ sqPc = "idle"
    /\ sqOrigin = <<>>
    /\ sqText = <<>>
    /\ sqResult = <<>>
    /\ fdText = <<>>
    /\ fdResult = <<>>
    /\ fdPc = "idle"
    /\ iterKind = "idle"
    /\ iter = <<>>
    /\ yielded = <<>>
    /\ collected = <<>>
    /\ position = <<{}, {}, {}, {}>>
    /\ rawChannels = <<{}, {}, {}, {}>>
    /\ tryWriteResult = <<>>
    /\ channels = empty
    /\ written = [j \in Bits64 |-> 0]
    /\ lastRead = <<>>
    /\ panicked = FALSE
    /\ lastCall = <<>>
    /\ fenText = <<>>
    /\ fenRecord = <<>>
    /\ fenResult = <<>>
    /\ fenPc = "idle"
    /\ pieceByte = 0
    /\ pieceOrigin = <<>>
    /\ pieceResult = <<>>
    /\ piecePc = "idle"
    /\ sanText \in SanInputs
    /\ sanResult = <<>>
    /\ sanPc = "text"

\* San::try_from(sanText)
DecodeSan ==
    /\ sanPc = "text"
    /\ sanResult' = San_try_from(sanText)
    /\ sanPc' = "done"
    /\ UNCHANGED <<sanText, qbVars, fenVars, pieceVars, squareVars, fenDataVars, iterVars, storeVars>>

SanNext == DecodeSan

SpecSan == SanInit /\ [][SanNext]_vars

----------------------------------------------------------------------------
(* Piece and its 4-bit representation (src/rust-core/src/core/piece.rs) *)

PieceColors == {"Black", "White"}
PieceTypes == {"None", "Pawn", "Rook", "Knight", "Bishop", "Queen", "King"}

\* the discriminants of PieceColor
PieceColor_as_u8(color) ==
    CASE color = "Black" -> 0
      [] color = "White" -> 1

\* the discriminants of PieceType
PieceType_as_u8(kind) ==
    CASE kind = "None" -> 0
      [] kind = "Pawn" -> 1
      [] kind = "Rook" -> 2
      [] kind = "Knight" -> 3
      [] kind = "Bishop" -> 4
      [] kind = "Queen" -> 5
      [] kind = "King" -> 6

\* struct Piece
Pieces == [color : PieceColors, kind : PieceTypes]

PieceErr(error) == [ok |-> FALSE, error |-> error]

\* x << n on u8
ShlU8(x, n) == (x * Pow2(n)) % Pow2(8)

\* <Piece as Into<u8>>::into with the color shifted into bit 4
Piece_into_shifted_by_four(self) ==
    (ShlU8(PieceColor_as_u8(self.color), 4) + PieceType_as_u8(self.kind)) % Pow2(8)

\* <Piece as Into<u8>>::into
Piece_into(self) ==
    (ShlU8(PieceColor_as_u8(self.color), 3) + PieceType_as_u8(self.kind)) % Pow2(8)

\* the first match of try_from: value >> 3
ColorOfBits(bits) ==
    CASE bits = 0 -> <<"Black">>
      [] bits = 1 -> <<"White">>
      [] OTHER -> <<>>

\* the second match of try_from: value % 8
KindOfBits(bits) ==
    CASE bits = 0 -> <<"None">>
      [] bits = 1 -> <<"Pawn">>
      [] bits = 2 -> <<"Rook">>
      [] bits = 3 -> <<"Knight">>
      [] bits = 4 -> <<"Bishop">>
      [] bits = 5 -> <<"Queen">>
      [] bits = 6 -> <<"King">>
      [] OTHER -> <<>>

\* <Piece as TryFrom<u8>>::try_from with the kind bits matched first
Piece_try_from_kind_first(value) ==
    IF KindOfBits(value % 8) = <<>> THEN PieceErr("InvalidTypeBits")
    ELSE IF ColorOfBits(value \div Pow2(3)) = <<>> THEN PieceErr("InvalidColorBit")
    ELSE [ok |-> TRUE,
          piece |-> [color |-> ColorOfBits(value \div Pow2(3))[1],
                     kind |-> KindOfBits(value % 8)[1]]]

\* <Piece as TryFrom<u8>>::try_from
Piece_try_from(value) ==
    IF ColorOfBits(value \div Pow2(3)) = <<>> THEN PieceErr("InvalidColorBit")
    ELSE IF KindOfBits(value % 8) = <<>> THEN PieceErr("InvalidTypeBits")
    ELSE [ok |-> TRUE,
          piece |-> [color |-> ColorOfBits(value \div Pow2(3))[1],
                     kind |-> KindOfBits(value % 8)[1]]]

\* either a Piece to convert into a u8 and back, or any u8 to convert
PieceInit ==
    /\ sqPc = "idle"
    /\ sqOrigin = <<>>
    /\ sqText = <<>>
    /\ sqResult = <<>>
    /\ fdText = <<>>
    /\ fdResult = <<>>
    /\ fdPc = "idle"
    /\ iterKind = "idle"
    /\ iter = <<>>
    /\ yielded = <<>>
    /\ collected = <<>>
    /\ position = <<{}, {}, {}, {}>>
    /\ rawChannels = <<{}, {}, {}, {}>>
    /\ tryWriteResult = <<>>
    /\ channels = empty
    /\ written = [j \in Bits64 |-> 0]
    /\ lastRead = <<>>
    /\ panicked = FALSE
    /\ lastCall = <<>>
    /\ fenText = <<>>
    /\ fenRecord = <<>>
    /\ fenResult = <<>>
    /\ fenPc = "idle"
    /\ sanText = <<>>
    /\ sanResult = <<>>
    /\ sanPc = "idle"
    /\ pieceResult = <<>>
    /\ \/ /\ pieceOrigin \in {<<p>> : p \in Pieces}
          /\ pieceByte = 0
          /\ piecePc = "piece"
       \/ /\ pieceOrigin = <<>>
          /\ pieceByte \in 0..U8Max
          /\ piecePc = "byte"

\* let value: u8 = piece.into()
IntoU8 ==
    /\ piecePc = "piece"
    /\ pieceByte' = Piece_into(pieceOrigin[1])
    /\ piecePc' = "byte"
    /\ UNCHANGED <<pieceOrigin, pieceResult, qbVars, fenVars, sanVars, squareVars, fenDataVars, iterVars, storeVars>>

\* Piece::try_from(value)
TryFromU8 ==
    /\ piecePc = "byte"
    /\ pieceResult' = Piece_try_from(pieceByte)
    /\ piecePc' = "done"
    /\ UNCHANGED <<pieceOrigin, pieceByte, qbVars, fenVars, sanVars, squareVars, fenDataVars, iterVars, storeVars>>

\* <u8 as NibbleDecode>::decode(value), of src/src/bitboard/quadboard.rs, on
\* any u8 and not only on what get_unchecked returns
DecodeU8 ==
    /\ piecePc = "byte"
    /\ pieceOrigin = <<>>
    /\ pieceResult' = decode(pieceByte)
    /\ piecePc' = "decoded"
    /\ UNCHANGED <<pieceOrigin, pieceByte, qbVars, fenVars, sanVars, squareVars, fenDataVars, iterVars, storeVars>>

PieceNext == IntoU8 \/ TryFromU8 \/ DecodeU8

SpecPiece == PieceInit /\ [][PieceNext]_vars

----------------------------------------------------------------------------
(* Squares and their algebraic names: Square (src/src/standard/square.rs),  *)
(* Index (src/rust-core/src/core/index.rs) and the en passant field of the  *)
(* rust-core FEN decoder (src/rust-core/src/io/fen.rs).                     *)

SquareFiles == {FileChars[k] : k \in 1..8}

\* <Square as TryFrom<&str>>::try_from with the file as the major offset
Square_try_from_file_major(value) ==
    Bind(then(one_of(SquareFiles, value), LAMBDA f :
         then(one_of(Digits18, f.tail), LAMBDA r :
         then(eof(r.tail), LAMBDA e : Ok(<<f.val, r.val>>, e.tail)))),
         LAMBDA r :
             IF r.ok
             THEN [ok |-> TRUE,
                   val |-> ((((AsciiCode(r.val[1]) - 97) * 8) % 256)
                                + (AsciiCode(r.val[2]) - 49)) % 256]
             ELSE [ok |-> FALSE, error |-> "InvalidFormat", val |-> value])

\* <Square as TryFrom<&str>>::try_from
Square_try_from(value) ==
    Bind(then(one_of(SquareFiles, value), LAMBDA f :
         then(one_of(Digits18, f.tail), LAMBDA r :
         then(eof(r.tail), LAMBDA e : Ok(<<f.val, r.val>>, e.tail)))),
         LAMBDA r :
             IF r.ok
             THEN [ok |-> TRUE,
                   val |-> ((((AsciiCode(r.val[2]) - 49) * 8) % 256)
                                + (AsciiCode(r.val[1]) - 97)) % 256]
             ELSE [ok |-> FALSE, error |-> "InvalidFormat", val |-> value])

\* <Square as Into<String>>::into
Square_into(self) ==
    LET rankChar == DigitChars[((self \div 8) + 49) - 47]
        fileChar == FileChars[((self % 8) + 97) - 96]
    IN  <<fileChar, rankChar>>

\* <Index as TryFrom<(char, char)>>::try_from: the first character is
\* matched against 'a'..='h' and named rank, the second against '1'..='8'
\* and named file
Index_try_from(value) ==
    IF value[1] \in SquareFiles /\ value[2] \in Digits18
    THEN [ok |-> TRUE,
          val |-> ((((AsciiCode(value[1]) - 97) * 8) % 256) + (AsciiCode(value[2]) - 49)) % 256]
    ELSE [ok |-> FALSE, error |-> "InvalidAlgebraicPosition", val |-> value]

\* try_parse_en_passant_target_square; (rank as u8) * 8 + (file as u8) is
\* u8 arithmetic on the character code of the letter. A build treats an
\* arithmetic overflow in one of two ways: with overflow checks ("debug") the
\* operation panics, without them ("release") it wraps
try_parse_en_passant_target_square(source, build) ==
    IF source = <<"-">> THEN [ok |-> TRUE, val |-> <<>>]
    ELSE IF Len(source) # 2 \/ source[1] \notin SquareFiles \/ source[2] \notin {"3", "6"}
    THEN [ok |-> FALSE, error |-> "InvalidEnPassantTargetSquareComponent"]
    ELSE Bind(<<AsciiCode(source[1]) * 8, IF source[2] = "3" THEN 3 ELSE 6>>,
              LAMBDA rf :
                  IF (rf[1] > U8Max \/ (rf[1] % 256) + rf[2] > U8Max) /\ build = "debug"
                  THEN [ok |-> FALSE, error |-> "panic: arithmetic overflow"]
                  ELSE [ok |-> TRUE, val |-> <<((rf[1] % 256) + rf[2]) % 256>>])

SquareTexts ==
    Texts({"a", "h", "1", "8", "3", "6", "i", "9", "0", "-"}, 0, MaxSquareLen)
        \cup {<<f, r>> : f \in SquareFiles, r \in Digits18}

\* a Square to name and read back, a text to read as a Square or as an en
\* passant field, or a pair of characters to read as an Index
SquareInit ==
    /\ channels = empty
    /\ written = [j \in Bits64 |-> 0]
    /\ lastRead = <<>>
    /\ panicked = FALSE
    /\ lastCall = <<>>
    /\ fenText = <<>>
    /\ fenRecord = <<>>
    /\ fenResult = <<>>
    /\ fenPc = "idle"
    /\ sanText = <<>>
    /\ sanResult = <<>>
    /\ sanPc = "idle"
    /\ pieceByte = 0
    /\ pieceOrigin = <<>>
    /\ pieceResult = <<>>
    /\ piecePc = "idle"
    /\ fdText = <<>>
    /\ fdResult = <<>>
    /\ fdPc = "idle"
    /\ iterKind = "idle"
    /\ iter = <<>>
    /\ yielded = <<>>
    /\ collected = <<>>
    /\ position = <<{}, {}, {}, {}>>
    /\ rawChannels = <<{}, {}, {}, {}>>
    /\ tryWriteResult = <<>>
    /\ sqResult = <<>>
    /\ \/ /\ sqPc = "square"
          /\ sqOrigin \in {<<n>> : n \in Bits64}
          /\ sqText = <<>>
       \/ /\ sqPc \in {"text", "field"}
          /\ sqOrigin = <<>>
          /\ sqText \in SquareTexts
       \/ /\ sqPc = "pair"
          /\ sqOrigin = <<>>
          /\ sqText \in {t \in SquareTexts : Len(t) = 2}

\* let name: String = square.into()
SquareIntoString ==
    /\ sqPc = "square"
    /\ sqText' = Square_into(sqOrigin[1])
    /\ sqPc' = "text"
    /\ UNCHANGED <<sqOrigin, sqResult>>
    /\ UNCHANGED <<qbVars, fenVars, sanVars, pieceVars, fenDataVars, iterVars, storeVars>>

\* Square::try_from(text)
SquareTryFrom ==
    /\ sqPc = "text"
    /\ sqResult' = Square_try_from(sqText)
    /\ sqPc' = "Square::try_from"
    /\ UNCHANGED <<sqOrigin, sqText>>
    /\ UNCHANGED <<qbVars, fenVars, sanVars, pieceVars, fenDataVars, iterVars, storeVars>>

\* Index::try_from((c1, c2))
IndexTryFrom ==
    /\ sqPc = "pair"
    /\ sqResult' = Index_try_from(sqText)
    /\ sqPc' = "Index::try_from"
    /\ UNCHANGED <<sqOrigin, sqText>>
    /\ UNCHANGED <<qbVars, fenVars, sanVars, pieceVars, fenDataVars, iterVars, storeVars>>

\* try_parse_en_passant_target_square(field), in either build
ParseEnPassantTargetSquare ==
    /\ sqPc = "field"
    /\ \E build \in {"debug", "release"} :
           sqResult' = try_parse_en_passant_target_square(sqText, build)
    /\ sqPc' = "try_parse_en_passant_target_square"
    /\ UNCHANGED <<sqOrigin, sqText>>
    /\ UNCHANGED <<qbVars, fenVars, sanVars, pieceVars, fenDataVars, iterVars, storeVars>>

SpecSquare ==
    SquareInit /\ [][SquareIntoString \/ SquareTryFrom \/ IndexTryFrom
                         \/ ParseEnPassantTargetSquare]_vars

----------------------------------------------------------------------------
(* Position (src/rust-core/src/core/positions.rs) and RawQuadBoard         *)
(* (src/src/quadboard.rs), written and read side by side with QuadBoard    *)

\* Position::try_get, for index < 64
Position_try_get(self, index) ==
    LET b(ch) == AsU8(Shr(self[ch], index) \cap U64Of(1))
        trunc == (b(1) + ShlU8(b(2), 1) + ShlU8(b(3), 2) + ShlU8(b(4), 3)) % Pow2(8)
    IN  Piece_try_from(trunc)

\* Position::try_write with the bits of the code dealt to the channels from
\* the most significant down
Position_try_write_msb_first(self, index, pc) ==
    LET code == Piece_into(pc)
        bit(k) == U64Of((code \div Pow2(3 - k)) % 2)
        index_mask == BitNot(Shl(U64Of(1), index))
    IN  IF index >= 64 THEN [ok |-> FALSE, position |-> self]
        ELSE [ok |-> TRUE,
              position |-> [ch \in 1..4 |->
                               (self[ch] \cap index_mask) \cup Shl(bit(ch - 1), index)]]

\* Position::try_write
Position_try_write(self, index, pc) ==
    LET code == Piece_into(pc)
        bit(k) == U64Of((code \div Pow2(k)) % 2)
        index_mask == BitNot(Shl(U64Of(1), index))
    IN  IF index >= 64 THEN [ok |-> FALSE, position |-> self]
        ELSE [ok |-> TRUE,
              position |-> [ch \in 1..4 |->
                               (self[ch] \cap index_mask) \cup Shl(bit(ch - 1), index)]]

\* RawQuadBoard::get_unchecked, for index < 64
RawQuadBoard_get_unchecked(self, index) ==
    LET mask == Shl(U64Of(1), index)
        masked_board == [lane \in 1..4 |-> Shr(self[lane] \cap mask, index)]
        term(lane) == AsU8(Shl(masked_board[lane + 1], lane))
    IN  term(0) + term(1) + term(2) + term(3)

\* RawQuadBoard::set_unchecked, for a nibble and index < 64
RawQuadBoard_set_unchecked(self, value, index) ==
    LET bit1 == U64Of(value % 2)
        bit2 == U64Of((value % 4) \div 2)
        bit3 == U64Of((value % 8) \div 4)
        bit4 == U64Of(value \div 8)
        clear_mask == BitNot(Shl(U64Of(1), index))
        mask == Bits64 \cap clear_mask
    IN  << (self[1] \cap mask) \cup Shl(bit1, index),
           (self[2] \cap mask) \cup Shl(bit2, index),
           (self[3] \cap mask) \cup Shl(bit3, index),
           (self[4] \cap mask) \cup Shl(bit4, index) >>

\* Position::empty(), QuadBoard::empty() and RawQuadBoard::default()
StoreInit ==
    /\ channels = empty
    /\ written = [j \in Bits64 |-> 0]
    /\ lastRead = <<>>
    /\ panicked = FALSE
    /\ lastCall = <<>>
    /\ fenText = <<>>
    /\ fenRecord = <<>>
    /\ fenResult = <<>>
    /\ fenPc = "idle"
    /\ sanText = <<>>
    /\ sanResult = <<>>
    /\ sanPc = "idle"
    /\ pieceByte = 0
    /\ pieceOrigin = <<>>
    /\ pieceResult = <<>>
    /\ piecePc = "idle"
    /\ sqPc = "idle"
    /\ sqOrigin = <<>>
    /\ sqText = <<>>
    /\ sqResult = <<>>
    /\ fdText = <<>>
    /\ fdResult = <<>>
    /\ fdPc = "idle"
    /\ iterKind = "idle"
    /\ iter = <<>>
    /\ yielded = <<>>
    /\ collected = <<>>
    /\ position = <<{}, {}, {}, {}>>
    /\ rawChannels = <<{}, {}, {}, {}>>
    /\ tryWriteResult = <<>>

\* the same write on the three boards: Position::try_write(index, piece),
\* QuadBoard::write(code, index) and RawQuadBoard::set_unchecked(code, index)
\* with code the piece's u8; index < 64
WriteAll(pc, index) ==
    /\ index < 64
    /\ tryWriteResult' = <<index, Position_try_write(position, index, pc).ok>>
    /\ position' = Position_try_write(position, index, pc).position
    /\ channels' = set_unchecked(channels, encode(Piece_into(pc)), index)
    /\ rawChannels' = RawQuadBoard_set_unchecked(rawChannels, Piece_into(pc), index)
    /\ written' = [written EXCEPT ![index] = Piece_into(pc)]
    /\ lastRead' = <<>>
    /\ UNCHANGED <<panicked, lastCall>>
    /\ UNCHANGED <<fenVars, sanVars, pieceVars, squareVars, fenDataVars, iterVars>>

\* Position::try_write(index, piece) with an index of 64 or more
TryWriteOutside(pc, index) ==
    /\ index >= 64
    /\ tryWriteResult' = <<index, Position_try_write(position, index, pc).ok>>
    /\ position' = Position_try_write(position, index, pc).position
    /\ lastRead' = <<>>
    /\ UNCHANGED <<channels, rawChannels, written, panicked, lastCall>>
    /\ UNCHANGED <<fenVars, sanVars, pieceVars, squareVars, fenDataVars, iterVars>>

\* the same read on the three boards: <<index, Position::try_get,
\* QuadBoard::read, RawQuadBoard::get_unchecked>>
ReadAll(index) ==
    /\ index < 64
    /\ lastRead' = << index,
                      Position_try_get(position, index),
                      decode(get_unchecked(channels, index)),
                      RawQuadBoard_get_unchecked(rawChannels, index) >>
    /\ tryWriteResult' = <<>>
    /\ UNCHANGED <<position, channels, rawChannels, written, panicked, lastCall>>
    /\ UNCHANGED <<fenVars, sanVars, pieceVars, squareVars, fenDataVars, iterVars>>

\* every piece at square 63, an empty square or the white knight of
\* validate_position_try_get_and_try_write at squares 0 and 4
SpecStore ==
    StoreInit /\
    [][ \/ \E index \in {0, 4, 63} :
              \E pc \in IF index = 63 THEN Pieces
                        ELSE {[color |-> "Black", kind |-> "None"],
                              [color |-> "White", kind |-> "Knight"]} :
                  WriteAll(pc, index)
        \/ \E index \in {64, U8Max} :
              \E pc \in {[color |-> "Black", kind |-> "None"],
                         [color |-> "White", kind |-> "Knight"]} :
                  TryWriteOutside(pc, index)
        \/ \E index \in {0, 4, 63} : ReadAll(index) ]_vars

----------------------------------------------------------------------------
(* Iterators: FenIndexIterator (src/rust-core/src/io/fen.rs),               *)
(* BitBoardIterator (src/src/standard/bitboard.rs) and                      *)
(* StandardBoardRankIterator (src/src/standard/board.rs). iter holds the    *)
(* fields of the iterator in use, yielded the result of every call made on  *)
(* it: <<>> for None, <<x>> for Some(x).                                    *)

\* FenIndexIterator::new; overflow records that a u8 operation of next left
\* 0..255 (a panic with overflow checks, a wrapped value without)
FenIndexIterator_new == [index |-> 55, rank_index |-> 0, overflow |-> FALSE]

\* FenIndexIterator::next stepping back by 16 at the end of a rank
FenIndexIterator_next_back_16(self) ==
    IF self.index = 7 THEN [self |-> self, result |-> <<>>]
    ELSE Bind(IF self.rank_index = 8
              THEN [index |-> (self.index - 16) % Pow2(8),
                    rank_index |-> 1,
                    overflow |-> self.overflow \/ self.index < 16]
              ELSE [index |-> (self.index + 1) % Pow2(8),
                    rank_index |-> (self.rank_index + 1) % Pow2(8),
                    overflow |-> self.overflow \/ self.index = U8Max
                                     \/ self.rank_index = U8Max],
              LAMBDA it : [self |-> it, result |-> <<it.index>>])

\* FenIndexIterator::next: the iterator after the call and its result
FenIndexIterator_next(self) ==
    IF self.index = 7 THEN [self |-> self, result |-> <<>>]
    ELSE Bind(IF self.rank_index = 8
              THEN [index |-> (self.index - 15) % Pow2(8),
                    rank_index |-> 1,
                    overflow |-> self.overflow \/ self.index < 15]
              ELSE [index |-> (self.index + 1) % Pow2(8),
                    rank_index |-> (self.rank_index + 1) % Pow2(8),
                    overflow |-> self.overflow \/ self.index = U8Max
                                     \/ self.rank_index = U8Max],
              LAMBDA it : [self |-> it, result |-> <<it.index>>])

\* a call of next on the FenIndexIterator
FenIndexNext ==
    /\ iterKind = "FenIndex"
    /\ Len(yielded) < 64 + MaxExtraCalls
    /\ iter' = FenIndexIterator_next(iter).self
    /\ yielded' = Append(yielded, FenIndexIterator_next(iter).result)
    /\ UNCHANGED <<iterKind, collected>>
    /\ UNCHANGED <<qbVars, fenVars, sanVars, pieceVars, squareVars, fenDataVars, storeVars>>

\* <&BitBoard as IntoIterator>::into_iter
BitBoard_into_iter(self) == [board |-> self, mask |-> U64Of(1)]

\* BitBoardIterator::next taking bit 62 for the last bit
BitBoardIterator_next_last_62 ==
    /\ iterKind = "BitBoard"
    /\ Len(yielded) < 64 + MaxExtraCalls
    /\ IF iter.mask = {}
       THEN /\ yielded' = Append(yielded, <<>>)
            /\ UNCHANGED iter
       ELSE /\ yielded' = Append(yielded, <<(iter.board \cup iter.mask) = iter.board>>)
            /\ iter' = [iter EXCEPT !.mask = IF iter.mask = Shl(U64Of(1), 62) THEN {}
                                             ELSE Shl(iter.mask, 1)]
    /\ UNCHANGED <<iterKind, collected>>
    /\ UNCHANGED <<qbVars, fenVars, sanVars, pieceVars, squareVars, fenDataVars, storeVars>>

\* BitBoardIterator::next
BitBoardIterator_next ==
    /\ iterKind = "BitBoard"
    /\ Len(yielded) < 64 + MaxExtraCalls
    /\ IF iter.mask = {}
       THEN /\ yielded' = Append(yielded, <<>>)
            /\ UNCHANGED iter
       ELSE /\ yielded' = Append(yielded, <<(iter.board \cup iter.mask) = iter.board>>)
            /\ iter' = [iter EXCEPT !.mask = IF iter.mask = Shl(U64Of(1), 63) THEN {}
                                             ELSE Shl(iter.mask, 1)]
    /\ UNCHANGED <<iterKind, collected>>
    /\ UNCHANGED <<qbVars, fenVars, sanVars, pieceVars, squareVars, fenDataVars, storeVars>>

\* <BitBoard as FromIterator<bool>>::from_iter on the iterator, whose 65
\* calls of next are the steps above: the first 64 results are unwrapped and
\* the 65th is asserted to be None
BitBoard_from_iter ==
    /\ iterKind = "BitBoard"
    /\ Len(yielded) = 65
    /\ collected = <<>>
    /\ collected' =
           IF (\E k \in 1..64 : yielded[k] = <<>>) \/ yielded[65] # <<>>
           THEN <<"panic">>
           ELSE <<{i \in Bits64 : yielded[i + 1][1]}>>
    /\ UNCHANGED <<iterKind, iter, yielded>>
    /\ UNCHANGED <<qbVars, fenVars, sanVars, pieceVars, squareVars, fenDataVars, storeVars>>

\* <StandardBoardRankIterator as From<&StandardBoard>>::from: chunks_exact(8)
\* of the 64 squares holds the chunks front..back-1, chunk k being rank k + 1
StandardBoardRankIterator_from == [front |-> 0, back |-> 8, index |-> 0]

\* StandardBoardRankIterator::len: 8 - self.index on usize
StandardBoardRankIterator_len(self) ==
    IF self.index <= 8 THEN [ok |-> TRUE, val |-> 8 - self.index]
    ELSE [ok |-> FALSE, error |-> "panic or wrap: arithmetic overflow"]

\* StandardBoardRankIterator::next; the entry of yielded is the call, its
\* result and len() after it
StandardBoardRankIterator_next ==
    /\ iterKind = "Rank"
    /\ Len(yielded) < 8 + MaxExtraCalls
    /\ iter' = [front |-> IF iter.front < iter.back THEN iter.front + 1 ELSE iter.front,
                back |-> iter.back,
                index |-> iter.index + 1]
    /\ yielded' = Append(yielded,
                         [call |-> "next",
                          result |-> IF iter.front < iter.back
                                     THEN <<iter.front + 1>> ELSE <<>>,
                          len |-> StandardBoardRankIterator_len(iter')])
    /\ UNCHANGED <<iterKind, collected>>
    /\ UNCHANGED <<qbVars, fenVars, sanVars, pieceVars, squareVars, fenDataVars, storeVars>>

\* StandardBoardRankIterator::next_back
StandardBoardRankIterator_next_back ==
    /\ iterKind = "Rank"
    /\ Len(yielded) < 8 + MaxExtraCalls
    /\ iter' = [front |-> iter.front,
                back |-> IF iter.front < iter.back THEN iter.back - 1 ELSE iter.back,
                index |-> iter.index]
    /\ yielded' = Append(yielded,
                         [call |-> "next_back",
                          result |-> IF iter.front < iter.back
                                     THEN <<iter.back>> ELSE <<>>,
                          len |-> StandardBoardRankIterator_len(iter')])
    /\ UNCHANGED <<iterKind, collected>>
    /\ UNCHANGED <<qbVars, fenVars, sanVars, pieceVars, squareVars, fenDataVars, storeVars>>

\* a new iterator of one of the three kinds; the boards iterated are the
\* empty and the full board, single bits and the channels of the unit test
IterInit ==
    /\ channels = empty
    /\ written = [j \in Bits64 |-> 0]
    /\ lastRead = <<>>
    /\ panicked = FALSE
    /\ lastCall = <<>>
    /\ fenText = <<>>
    /\ fenRecord = <<>>
    /\ fenResult = <<>>
    /\ fenPc = "idle"
    /\ sanText = <<>>
    /\ sanResult = <<>>
    /\ sanPc = "idle"
    /\ pieceByte = 0
    /\ pieceOrigin = <<>>
    /\ pieceResult = <<>>
    /\ piecePc = "idle"
    /\ sqPc = "idle"
    /\ sqOrigin = <<>>
    /\ sqText = <<>>
    /\ sqResult = <<>>
    /\ fdText = <<>>
    /\ fdResult = <<>>
    /\ fdPc = "idle"
    /\ position = <<{}, {}, {}, {}>>
    /\ rawChannels = <<{}, {}, {}, {}>>
    /\ tryWriteResult = <<>>
    /\ yielded = <<>>
    /\ collected = <<>>
    /\ \/ /\ iterKind = "FenIndex"
          /\ iter = FenIndexIterator_new
       \/ /\ iterKind = "BitBoard"
          /\ \E board \in {{}, Bits64, {0}, {63}, {0, 5, 32, 63}, {0, 5, 32}, Bits64 \ {0, 63}} :
                 iter = BitBoard_into_iter(board)
       \/ /\ iterKind = "Rank"
          /\ iter = StandardBoardRankIterator_from

SpecIter ==
    IterInit /\
    [][ FenIndexNext \/ BitBoardIterator_next \/ BitBoard_from_iter
            \/ StandardBoardRankIterator_next
            \/ StandardBoardRankIterator_next_back ]_vars

----------------------------------------------------------------------------
(* FenData::try_from and its field parsers (src/rust-core/src/io/fen.rs).   *)
(* A result is [ok |-> TRUE, val |-> v] or [ok |-> FALSE, error |-> e].     *)

FenErr(error) == [ok |-> FALSE, error |-> error]

\* FenIndexIterator::advance_by
RECURSIVE FenIndexIterator_advance_by(_, _)
FenIndexIterator_advance_by(self, steps) ==
    IF steps = 0 THEN [self |-> self, ok |-> TRUE]
    ELSE Bind(FenIndexIterator_next(self),
              LAMBDA r : IF r.result = <<>> THEN [self |-> r.self, ok |-> FALSE]
                         ELSE FenIndexIterator_advance_by(r.self, steps - 1))

\* <Piece as TryFrom<char>>::try_from on the twelve piece letters
Piece_try_from_char(value) ==
    [color |-> IF value \in {"P", "R", "B", "N", "Q", "K"} THEN "White" ELSE "Black",
     kind |-> CASE value \in {"p", "P"} -> "Pawn"
                [] value \in {"r", "R"} -> "Rook"
                [] value \in {"b", "B"} -> "Bishop"
                [] value \in {"n", "N"} -> "Knight"
                [] value \in {"q", "Q"} -> "Queen"
                [] value \in {"k", "K"} -> "King"]

\* try_parse_piece_placement: the loop over the characters of source, from
\* the position and the iterator reached so far
RECURSIVE try_parse_piece_placement(_, _, _)
try_parse_piece_placement(source, pos, fen_index_iterator) ==
    IF source = <<>> THEN [ok |-> TRUE, val |-> pos]
    ELSE IF Head(source) \in PieceLetters
    THEN Bind(Bind(FenIndexIterator_next(fen_index_iterator),
                   LAMBDA r :
                       IF r.result = <<>> THEN [ok |-> FALSE]
                       ELSE [ok |-> Position_try_write(pos, r.result[1],
                                        Piece_try_from_char(Head(source))).ok,
                             position |-> Position_try_write(pos, r.result[1],
                                              Piece_try_from_char(Head(source))).position,
                             self |-> r.self]),
              LAMBDA w :
                  IF ~w.ok THEN FenErr("InvalidPositionComponent")
                  ELSE try_parse_piece_placement(Tail(source), w.position, w.self))
    ELSE IF Head(source) = "/"
    THEN try_parse_piece_placement(Tail(source), pos, fen_index_iterator)
    ELSE IF Head(source) \in Digits18
    THEN Bind(FenIndexIterator_advance_by(fen_index_iterator,
                                          IndexIn(DigitChars, Head(source)) - 1),
              LAMBDA a : try_parse_piece_placement(Tail(source), pos, a.self))
    ELSE FenErr("InvalidPositionComponent")

\* try_parse_side_to_move
try_parse_side_to_move(source) ==
    IF Len(source) # 1 THEN FenErr("InvalidPieceToMoveComponent")
    ELSE IF source[1] = "w" THEN [ok |-> TRUE, val |-> "White"]
    ELSE IF source[1] = "b" THEN [ok |-> TRUE, val |-> "Black"]
    ELSE FenErr("InvalidPieceToMoveComponent")

\* try_parse_castling_permissions: "-" and the fifteen listed texts
try_parse_castling_permissions(source) ==
    IF source = <<"-">> \/
       source \in { <<"K">>, <<"Q">>, <<"k">>, <<"q">>,
                    <<"K", "Q">>, <<"K", "k">>, <<"K", "q">>,
                    <<"Q", "k">>, <<"Q", "q">>, <<"k", "q">>,
                    <<"K", "Q", "k">>, <<"K", "Q", "q">>,
                    <<"K", "k", "q">>, <<"Q", "k", "q">>,
                    <<"K", "Q", "k", "q">> }
    THEN [ok |-> TRUE,
          val |-> [white_king_side |-> \E k \in 1..Len(source) : source[k] = "K",
                   white_queen_side |-> \E k \in 1..Len(source) : source[k] = "Q",
                   black_king_side |-> \E k \in 1..Len(source) : source[k] = "k",
                   black_queen_side |-> \E k \in 1..Len(source) : source[k] = "q"]]
    ELSE FenErr("InvalidCastlingPermissionsComponent")

\* str::parse for an unsigned integer of the given maximum: an optional "+",
\* then one or more decimal digits and nothing else
parse_unsigned(source, max) ==
    Bind(IF Len(source) > 1 /\ Head(source) = "+" THEN Tail(source) ELSE source,
         LAMBDA digits :
             IF digits = <<>> \/ \E k \in 1..Len(digits) : ~IsDigit(digits[k]) THEN Fail
             ELSE uint_digits(digits, 0, max))

\* try_parse_halfmove_clock
try_parse_halfmove_clock(source) ==
    Bind(parse_unsigned(source, U8Max),
         LAMBDA r : IF r.ok /\ r.val <= 50 THEN [ok |-> TRUE, val |-> r.val]
                    ELSE FenErr("InvalidHalfmoveClockComponent"))

\* try_parse_fullmove_counter
try_parse_fullmove_counter(source) ==
    Bind(parse_unsigned(source, U16Max),
         LAMBDA r : IF r.ok /\ r.val >= 1 THEN [ok |-> TRUE, val |-> r.val]
                    ELSE FenErr("InvalidFullmoveCounterComponent"))

\* <FenData as TryFrom<&str>>::try_from counting the fields on both sides
\* before any of them is parsed
FenData_try_from_count_first(value, build) ==
    Bind(Split(value, {" "}), LAMBDA fields :
        IF Len(fields) > 6 THEN FenErr("TooManyFields")
        ELSE IF Len(fields) < 6 THEN FenErr("TooFewFields")
        ELSE
        then(try_parse_piece_placement(fields[1], <<{}, {}, {}, {}>>,
                                       FenIndexIterator_new), LAMBDA pos :
        then(try_parse_side_to_move(fields[2]), LAMBDA side :
        then(try_parse_castling_permissions(fields[3]), LAMBDA castling :
        then(try_parse_en_passant_target_square(fields[4], build), LAMBDA ep :
        then(try_parse_halfmove_clock(fields[5]), LAMBDA halfmove :
        then(try_parse_fullmove_counter(fields[6]), LAMBDA fullmove :
            [ok |-> TRUE,
             val |-> [position |-> pos.val,
                      side_to_move |-> side.val,
                      castling_permissions |-> castling.val,
                      en_passant_target_square |-> ep.val,
                      halfmove_clock |-> halfmove.val,
                      fullmove_counter |-> fullmove.val]])))))))

\* <FenData as TryFrom<&str>>::try_from: source_iterator.next().ok_or_else(ret)?
\* is the k-th field or TooFewFields, taken when the fields before it are parsed
FenData_try_from(value, build) ==
    Bind(Split(value, {" "}), LAMBDA fields :
        IF Len(fields) > 6 THEN FenErr("TooManyFields")
        ELSE
        LET source_iterator_next(k) ==
                IF k <= Len(fields) THEN [ok |-> TRUE, val |-> fields[k]]
                ELSE FenErr("TooFewFields")
        IN
        then(then(source_iterator_next(1), LAMBDA f :
                  try_parse_piece_placement(f.val, <<{}, {}, {}, {}>>,
                                            FenIndexIterator_new)), LAMBDA pos :
        then(then(source_iterator_next(2), LAMBDA f :
                  try_parse_side_to_move(f.val)), LAMBDA side :
        then(then(source_iterator_next(3), LAMBDA f :
                  try_parse_castling_permissions(f.val)), LAMBDA castling :
        then(then(source_iterator_next(4), LAMBDA f :
                  try_parse_en_passant_target_square(f.val, build)), LAMBDA ep :
        then(then(source_iterator_next(5), LAMBDA f :
                  try_parse_halfmove_clock(f.val)), LAMBDA halfmove :
        then(then(source_iterator_next(6), LAMBDA f :
                  try_parse_fullmove_counter(f.val)), LAMBDA fullmove :
            [ok |-> TRUE,
             val |-> [position |-> pos.val,
                      side_to_move |-> side.val,
                      castling_permissions |-> castling.val,
                      en_passant_target_square |-> ep.val,
                      halfmove_clock |-> halfmove.val,
                      fullmove_counter |-> fullmove.val]])))))))

\* a text of up to MaxFields fields joined by single spaces; the choices for
\* a field hold texts its parser accepts, texts it rejects and the empty
\* text, the first field also a placement with a piece after 64 squares
FenDataInit ==
    /\ channels = empty
    /\ written = [j \in Bits64 |-> 0]
    /\ lastRead = <<>>
    /\ panicked = FALSE
    /\ lastCall = <<>>
    /\ fenText = <<>>
    /\ fenRecord = <<>>
    /\ fenResult = <<>>
    /\ fenPc = "idle"
    /\ sanText = <<>>
    /\ sanResult = <<>>
    /\ sanPc = "idle"
    /\ pieceByte = 0
    /\ pieceOrigin = <<>>
    /\ pieceResult = <<>>
    /\ piecePc = "idle"
    /\ sqPc = "idle"
    /\ sqOrigin = <<>>
    /\ sqText = <<>>
    /\ sqResult = <<>>
    /\ iterKind = "idle"
    /\ iter = <<>>
    /\ yielded = <<>>
    /\ collected = <<>>
    /\ position = <<{}, {}, {}, {}>>
    /\ rawChannels = <<{}, {}, {}, {}>>
    /\ tryWriteResult = <<>>
    /\ fdResult = <<>>
    /\ fdPc = "text"
    /\ LET choices(k) ==
               CASE k = 1 -> {<<"k", "q", "6", "/", "8", "/", "8", "/", "8", "/", "8", "/", "8",
                                "/", "8", "/", "6", "Q", "K">>,
                              <<"8", "/", "x">>, <<>>,
                              <<"8", "8", "8", "8", "8", "8", "8", "8", "p">>}
                 [] k = 2 -> {<<"w">>, <<"x">>, <<>>}
                 [] k = 3 -> {<<"-">>, <<"K", "Q", "k", "q">>, <<"K", "q">>, <<"q", "K">>}
                 [] k = 4 -> {<<"-">>, <<"e", "3">>, <<"e", "4">>}
                 [] k = 5 -> {<<"0">>, <<"5", "0">>, <<"5", "1">>, <<"+", "7">>}
                 [] k = 6 -> {<<"1">>, <<"0">>, <<"1", "2">>}
                 [] OTHER -> {<<"x">>, <<>>}
           RECURSIVE joined(_)
           joined(n) ==
               IF n = 1 THEN choices(1)
               ELSE {head \o <<" ">> \o last : head \in joined(n - 1), last \in choices(n)}
       IN  \E n \in 1..MaxFields : fdText \in joined(n)

\* FenData::try_from(fdText) in a build with or without overflow checks
FenDataTryFrom ==
    /\ fdPc = "text"
    /\ \E build \in {"debug", "release"} :
           fdResult' = FenData_try_from(fdText, build)
    /\ fdPc' = "FenData::try_from"
    /\ UNCHANGED fdText
    /\ UNCHANGED <<qbVars, fenVars, sanVars, pieceVars, squareVars, iterVars, storeVars>>

SpecFenData == FenDataInit /\ [][FenDataTryFrom]_vars

----------------------------------------------------------------------------
(* Claims about QuadBoard *)

NibbleBit(nibble, i) == (nibble \div Pow2(i)) % 2 = 1

\* the board of quadboard_set_unchecked_is_correct as an array of nibbles
ExampleNibbles ==
    [j \in Bits64 |-> IF j = 0 THEN 15 ELSE IF j = 5 THEN 13
                      ELSE IF j = 32 THEN 15 ELSE IF j = 63 THEN 7 ELSE 0]

\* 0x8000000100000021, 0x8000000100000001, 0x8000000100000021,
\* 0x0000000100000021 as sets of bit positions
ExampleChannels == << {0, 5, 32, 63}, {0, 32, 63}, {0, 5, 32, 63}, {0, 5, 32} >>

\* C2: after any sequence of writes, bit j of channel i is bit i of the
\* nibble stored at square j; the four writes of the unit test give the
\* channels 0x8000000100000021, 0x8000000100000001, 0x8000000100000021 and
\* 0x0000000100000021.
C2_ChannelBitIsNibbleBit ==
    /\ \A i \in 0..3 : \A j \in Bits64 :
           (j \in into_channels(channels)[i + 1]) <=> NibbleBit(written[j], i)
    /\ written = ExampleNibbles => into_channels(channels) = ExampleChannels

C2_Witness ==
    /\ written = ExampleNibbles
    /\ channels = ExampleChannels

----------------------------------------------------------------------------
(* Claims about Fen::try_from. The fields of a text are taken apart here    *)
(* independently of the decoder.                                            *)

decoded == fenPc = "done"
accepted == fenPc = "done" /\ fenResult.ok
rejected == fenPc = "done" /\ ~fenResult.ok

NonEmpty(part) == part # <<>>

\* the fields of the text, separated by single spaces
SpaceFields == Split(fenText, {" "})
\* the fields of the text, separated by runs of spaces and tabs
Fields == SelectSeq(Split(fenText, {" ", "\t"}), NonEmpty)
Field(k) == IF k <= Len(Fields) THEN Fields[k] ELSE <<>>
\* the ranks of the piece-placement field as listed, rank 8 first
ListedRanks == Split(Field(1), {"/"})

\* texts of six valid fields
Frames ==
    {Join(StartRanks, <<"/">>)} \X {<<"w">>, <<"b">>}
        \X {<<"-">>, <<"K", "Q">>, <<"K", "Q", "k", "q">>} \X {<<"-">>}
        \X {<<"0">>} \X {<<"1">>, <<"4", "2">>}

\* the text is six valid fields with the k-th replaced by field
Framed(k, field) ==
    \E frame \in Frames : fenText = Join([frame EXCEPT ![k] = field], <<" ">>)

DigitValue(c) == IndexIn(DigitChars, c) - 1
AllDigits(text) == text # <<>> /\ \A k \in 1..Len(text) : IsDigit(text[k])
RECURSIVE DecimalValue(_)
DecimalValue(text) ==
    IF text = <<>> THEN 0
    ELSE 10 * DecimalValue(SubSeq(text, 1, Len(text) - 1)) + DigitValue(text[Len(text)])

\* the piece a FEN letter stands for: upper case is White, lower case Black
LetterPiece(c) ==
    (IF c \in {"P", "N", "B", "R", "Q", "K"} THEN "White" ELSE "Black")
    \o (CASE c \in {"p", "P"} -> "Pawn"   [] c \in {"n", "N"} -> "Knight"
          [] c \in {"b", "B"} -> "Bishop" [] c \in {"r", "R"} -> "Rook"
          [] c \in {"q", "Q"} -> "Queen"  [] c \in {"k", "K"} -> "King")

\* what a rank text puts at file f, a digit d standing for d empty squares
RECURSIVE AtFile(_, _)
AtFile(rankText, f) ==
    IF rankText = <<>> THEN "None"
    ELSE IF IsDigit(Head(rankText))
    THEN IF f < DigitValue(Head(rankText)) THEN "None"
         ELSE AtFile(Tail(rankText), f - DigitValue(Head(rankText)))
    ELSE IF f = 0 THEN LetterPiece(Head(rankText))
    ELSE AtFile(Tail(rankText), f - 1)

\* C3: the piece written at file f of the k-th listed rank is at square
\* 8*(8-k) + f (index 0 is a1, index 63 is h8), every square no letter covers
\* is None, and the starting position has a white rook on a1, the white king
\* on e1 (index 4) and a black rook on h8.
PlacedAsListed(ranks) ==
    /\ \A k \in 1..8 : \A f \in 0..7 :
           fenResult.fen.pieces[8 * (8 - k) + f + 1]
               = (IF k <= Len(ranks) THEN AtFile(ranks[k], f) ELSE "None")
    /\ ranks = StartRanks =>
           /\ fenResult.fen.pieces[0 + 1] = "WhiteRook"
           /\ fenResult.fen.pieces[4 + 1] = "WhiteKing"
           /\ fenResult.fen.pieces[63 + 1] = "BlackRook"

C3_PlacementSquares == accepted => Bind(ListedRanks, PlacedAsListed)

\* the position of the integration test decoded: b5 (33) a white bishop, a5
\* (32) a black pawn, b6 (41) empty, h3 (23) a white knight
C3_Witness ==
    /\ accepted
    /\ ListedRanks = TestRanks
    /\ fenResult.fen.pieces[33 + 1] = "WhiteBishop"
    /\ fenResult.fen.pieces[32 + 1] = "BlackPawn"
    /\ fenResult.fen.pieces[41 + 1] = "None"
    /\ fenResult.fen.pieces[23 + 1] = "WhiteKnight"

\* piece letters count one, run-length digits their value
RECURSIVE RankSum(_)
RankSum(rankText) ==
    IF rankText = <<>> THEN 0
    ELSE (IF IsDigit(Head(rankText)) THEN DigitValue(Head(rankText)) ELSE 1)
         + RankSum(Tail(rankText))

WellFormedRank(rankText) ==
    /\ \A k \in 1..Len(rankText) : rankText[k] \in PieceLetters \cup Digits18
    /\ RankSum(rankText) = 8

EightWellFormedRanks(ranks) ==
    /\ Len(ranks) = 8
    /\ \A k \in 1..Len(ranks) : WellFormedRank(ranks[k])

\* the text is ranks joined by slashes and then five valid fields
PlacementFramed(ranks) ==
    \E others \in {<< <<"w">>, <<"K", "k", "q">>, <<"-">>, <<"3">>, <<"6">> >>,
                  << <<"b">>, <<"-">>, <<"-">>, <<"0">>, <<"1">> >>,
                  << <<"w">>, <<"-">>, <<"-">>, <<"0">>, <<"1">> >>} :
        fenText = Join(<<Join(ranks, <<"/">>)>> \o others, <<" ">>)

RanksDecided(ranks) ==
    /\ fenResult.ok => EightWellFormedRanks(ranks)
    /\ PlacementFramed(ranks) => (fenResult.ok <=> EightWellFormedRanks(ranks))

\* C4: a text is decoded only if its piece-placement field is exactly 8
\* slash-separated ranks, each of piece letters and digits 1..8 whose count of
\* letters plus sum of digits is exactly 8; with the other fields valid, any
\* other placement field is rejected and every such field is accepted.
C4_RanksSumToEight == decoded => Bind(ListedRanks, RanksDecided)

\* a text of 8 ranks, one of them one square short, is rejected
OneRankShort(ranks) ==
    /\ PlacementFramed(ranks)
    /\ Len(ranks) = 8
    /\ \E k \in 1..8 :
           /\ RankSum(ranks[k]) = 7
           /\ \A j \in (1..8) \ {k} : WellFormedRank(ranks[j])

C4_Witness == rejected /\ Bind(ListedRanks, OneRankShort)

\* the letters of KQkq at the places of a non-empty set of indices, in order
CastlingLetters == <<"K", "Q", "k", "q">>
Occurs(c, text) == \E k \in 1..Len(text) : text[k] = c
Subsequence(keep) ==
    LET Kept(c) == \E k \in keep : CastlingLetters[k] = c
    IN  SelectSeq(CastlingLetters, Kept)
ValidCastlingFields ==
    {<<"-">>} \cup {Subsequence(keep) : keep \in (SUBSET (1..4)) \ {{}}}

\* C5: in a text whose other fields are valid, the castling field is accepted
\* exactly when it is - or a non-empty subsequence of KQkq; a decoded Fen's
\* four permissions are true exactly when K, Q, k, q occur in the field.
CastlingDecided(field) ==
    /\ fenResult.ok =>
          /\ field \in ValidCastlingFields
          /\ fenResult.fen.castling_permissions
                 = [white_king_side |-> Occurs("K", field),
                    white_queen_side |-> Occurs("Q", field),
                    black_king_side |-> Occurs("k", field),
                    black_queen_side |-> Occurs("q", field)]
    /\ Framed(3, field) /\ field \in ValidCastlingFields => fenResult.ok

C5_CastlingField == decoded => Bind(Field(3), CastlingDecided)

\* Kq accepted with exactly those two permissions
C5_Witness ==
    /\ accepted
    /\ Field(3) = <<"K", "q">>
    /\ fenResult.fen.castling_permissions = Permissions(TRUE, FALSE, FALSE, TRUE)

ValidEnPassantFields ==
    {<<"-">>} \cup {<<FileChars[f], r>> : <<f, r>> \in (1..8) \X {"3", "6"}}

\* the square index of a file letter and a rank digit: a1 is 0, h8 is 63
SquareIndex(field) == 8 * (DigitValue(field[2]) - 1) + (IndexIn(FileChars, field[1]) - 1)

\* C6: in a text whose other fields are valid, the en-passant field is
\* accepted exactly when it is - or a file letter a..h followed by 3 or 6;
\* - decodes to None and a square to its index, 16 + file on rank 3 and
\* 40 + file on rank 6, so the decoded square lies in 16..23 or 40..47.
EnPassantDecided(field) ==
    /\ fenResult.ok =>
          /\ field \in ValidEnPassantFields
          /\ fenResult.fen.en_passant_square
                 = (IF field = <<"-">> THEN <<>> ELSE <<SquareIndex(field)>>)
          /\ \A k \in 1..Len(fenResult.fen.en_passant_square) :
                 fenResult.fen.en_passant_square[k] \in (16..23) \cup (40..47)
    /\ Framed(4, field) /\ field \in ValidEnPassantFields => fenResult.ok

C6_EnPassantField == decoded => Bind(Field(4), EnPassantDecided)

\* c6 decoded to 42
C6_Witness ==
    /\ accepted
    /\ Field(4) = <<"c", "6">>
    /\ fenResult.fen.en_passant_square = <<42>>

\* C7: in a text whose other fields are valid, a halfmove clock written as a
\* decimal number is accepted when it is in 0..100 and rejected when it is
\* greater; every decoded Fen has halfmove_clock <= 100.
HalfmoveDecided(field) ==
    /\ fenResult.ok =>
          /\ AllDigits(field)
          /\ fenResult.fen.halfmove_clock = DecimalValue(field)
          /\ fenResult.fen.halfmove_clock <= 100
    /\ Framed(5, field) /\ AllDigits(field) =>
          (fenResult.ok <=> DecimalValue(field) <= 100)

C7_HalfmoveClock == decoded => Bind(Field(5), HalfmoveDecided)

\* the clock 100 accepted
C7_Witness ==
    /\ accepted
    /\ Field(5) = <<"1", "0", "0">>
    /\ fenResult.fen.halfmove_clock = 100

\* C8, as the specification states it: every decoded Fen has
\* fullmove_counter >= 1 (a text whose fullmove counter is 0 is rejected).
C8_FullmoveAtLeastOne ==
    accepted => fenResult.fen.fullmove_counter >= 1

SixFieldsOnly(fields) ==
    /\ Len(fields) = 6
    /\ fenText[1] \notin {" ", "\t"}
    /\ IsDigit(fenText[Len(fenText)])
    /\ AllDigits(fields[6])

SixFieldsDecided(fields) ==
    /\ ~SixFieldsOnly(fields) => ~fenResult.ok
    /\ fenResult.ok => fenResult.rest = <<>>

C10_RoundTrip ==
    decoded /\ fenRecord # <<>> =>
        /\ fenResult.ok
        /\ fenResult.fen = fenRecord[1]

\* a record with pieces, an en-passant square and mixed permissions came back
C10_Witness ==
    /\ accepted
    /\ fenRecord # <<>>
    /\ fenRecord[1].en_passant_square = <<42>>
    /\ fenRecord[1].castling_permissions = Permissions(TRUE, FALSE, FALSE, TRUE)
    /\ fenRecord[1].fullmove_counter = 65535
    /\ fenRecord[1].pieces[33 + 1] = "WhiteBishop"
    /\ fenResult.fen = fenRecord[1]

----------------------------------------------------------------------------
(* Claims about San::try_from. The shape of a text is read off its first    *)
(* characters here, independently of the decoder.                           *)

sanDecoded == sanPc = "done"
sanAccepted == sanPc = "done" /\ sanResult.ok
sanRejected == sanPc = "done" /\ ~sanResult.ok

SanFiles == {FileChars[k] : k \in 1..8}
SanPieceLetters == {"K", "Q", "R", "B", "N"}

CharAt(text, k) == IF k <= Len(text) THEN text[k] ELSE ""

\* the shape whose prefix the text starts with, in the order castle,
\* abbreviated pawn move, pawn move, normal move
ShapeOf(text) ==
    IF CharAt(text, 1) \in {"0", "O"} THEN "CastleMove"
    ELSE IF CharAt(text, 1) \in SanFiles
              /\ \/ CharAt(text, 2) \in SanFiles
                 \/ CharAt(text, 2) \in CaptureChars /\ CharAt(text, 3) \in SanFiles
    THEN "AbbreviatedPawnMove"
    ELSE IF CharAt(text, 1) \in SanFiles THEN "PawnMove"
    ELSE "NormalMove"

AbbreviatedOf(from, to) ==
    [kind |-> "AbbreviatedPawnMove", source_rank |-> from, target_rank |-> to,
     is_capture |-> FALSE, promotion_piece |-> <<>>]

\* C11: the kind of a decoded San is that of the first of castle, abbreviated
\* pawn move, pawn move, normal move whose shape the text starts with; ab and
\* fg decode to AbbreviatedPawnMove (source file, target file, no capture) and
\* O-O to a CastleMove.
C11_FirstShapeWins ==
    /\ sanAccepted => sanResult.san.data.kind = ShapeOf(sanText)
    /\ sanDecoded /\ sanText = <<"a", "b">> =>
           sanResult.ok /\ sanResult.san.data = AbbreviatedOf("a", "b")
    /\ sanDecoded /\ sanText = <<"f", "g">> =>
           sanResult.ok /\ sanResult.san.data = AbbreviatedOf("f", "g")
    /\ sanDecoded /\ sanText = <<"O", "-", "O">> =>
           sanResult.ok /\ sanResult.san.data.kind = "CastleMove"

\* ab decoded to an abbreviated pawn move
C11_Witness ==
    /\ sanAccepted
    /\ sanText = <<"a", "b">>
    /\ sanResult.san.data = AbbreviatedOf("a", "b")

PromotionLetters == {"R", "N", "B", "Q"}
PromotionKind(c) ==
    CASE c = "R" -> "Rook" [] c = "N" -> "Knight" [] c = "B" -> "Bishop" [] c = "Q" -> "Queen"

\* whether the text begins with a file letter and a capture symbol
HasCaptureBlock(text) == CharAt(text, 1) \in SanFiles /\ CharAt(text, 2) \in CaptureChars
\* where the target square of a pawn move begins
TargetAt(text) == IF HasCaptureBlock(text) THEN 3 ELSE 1

\* the text has the shape [<file><capture>]<target>[=<promotion>]
IsPawnMoveLiteral(text) ==
    /\ CharAt(text, TargetAt(text)) \in SanFiles
    /\ CharAt(text, TargetAt(text) + 1) \in Digits18
    /\ \/ Len(text) = TargetAt(text) + 1
       \/ /\ Len(text) = TargetAt(text) + 3
          /\ text[TargetAt(text) + 2] = "="
          /\ text[TargetAt(text) + 3] \in PromotionLetters

\* the PawnMove such a literal stands for
PawnMoveOf(text) ==
    [kind |-> "PawnMove",
     target |-> <<text[TargetAt(text)], text[TargetAt(text) + 1]>>,
     is_capture |-> HasCaptureBlock(text),
     capture_rank |-> IF HasCaptureBlock(text) THEN <<text[1]>> ELSE <<>>,
     promotion_piece |-> IF Len(text) = TargetAt(text) + 3
                         THEN <<PromotionKind(text[TargetAt(text) + 3])>> ELSE <<>>]

\* C12, as the specification states it: every literal of the shape
\* [<file><capture>]<target>[=<promotion>] is decoded, exd5 and bxc8=Q
\* included, to a PawnMove with the capture file, is_capture, the target
\* square and the promotion piece of the literal.
C12_PawnMoveLiteralsDecoded ==
    sanDecoded /\ IsPawnMoveLiteral(sanText) =>
        /\ sanResult.ok
        /\ sanResult.san.data = PawnMoveOf(sanText)

\* the characters after the piece letter up to the first that is not a file
\* letter, a rank digit or a capture symbol
NormalBody(text) ==
    SubSeq(text, 2, 1 + PrefixLen(SanFiles \cup Digits18 \cup CaptureChars, Tail(text)))

\* a capture symbol stands right before the last two characters of the body
BodyCapture(body) == Len(body) >= 3 /\ body[Len(body) - 2] \in CaptureChars
\* what precedes the capture symbol, or the target if there is none
BodyDisambiguation(body) ==
    SubSeq(body, 1, Len(body) - (IF BodyCapture(body) THEN 3 ELSE 2))

\* the body is [<file>][<rank digit>][<capture>]<target>
IsNormalBody(body) ==
    /\ Len(body) >= 2
    /\ body[Len(body) - 1] \in SanFiles
    /\ body[Len(body)] \in Digits18
    /\ \/ BodyDisambiguation(body) = <<>>
       \/ BodyDisambiguation(body) \in {<<c>> : c \in SanFiles \cup Digits18}
       \/ BodyDisambiguation(body) \in SanFiles \X Digits18

DisambiguationRead(d) ==
    IF d = <<>> THEN <<>>
    ELSE IF Len(d) = 2 THEN << [kind |-> "SourceSquare", val |-> d] >>
    ELSE IF d[1] \in SanFiles THEN << [kind |-> "FileLetter", val |-> d[1]] >>
    ELSE << [kind |-> "RankDigit", val |-> d[1]] >>

PieceKindRead(c) ==
    CASE c = "K" -> "King" [] c = "Q" -> "Queen" [] c = "R" -> "Rook"
      [] c = "B" -> "Bishop" [] c = "N" -> "Knight"

NormalMoveRead(letter, body) ==
    [kind |-> "NormalMove",
     piece |-> PieceKindRead(letter),
     disambiguation_field |-> DisambiguationRead(BodyDisambiguation(body)),
     target |-> <<body[Len(body) - 1], body[Len(body)]>>,
     is_capture |-> BodyCapture(body)]

NormalMoveDecided(body) ==
    /\ sanResult.ok => IsNormalBody(body) /\ sanResult.san.data = NormalMoveRead(sanText[1], body)
    /\ IsNormalBody(body) /\ Len(sanText) = 1 + Len(body) => sanResult.ok

\* C13: a text that begins with a piece letter of KQRBN is decoded only as a
\* NormalMove of that piece whose last two body characters are the target;
\* what precedes them (and the capture symbol, if any) is no disambiguation,
\* a FileLetter, a RankDigit or a SourceSquare, and is_capture is true
\* exactly when a capture symbol precedes the target. Every such literal
\* without suffix is decoded; Rxe7#!! is Rook, capture, e7, checkmate,
\* BangBang.
C13_NormalMoveFields ==
    /\ sanDecoded /\ CharAt(sanText, 1) \in SanPieceLetters =>
           Bind(NormalBody(sanText), NormalMoveDecided)
    /\ sanDecoded /\ sanText = <<"R", "x", "e", "7", "#", "!", "!">> =>
           /\ sanResult.ok
           /\ sanResult.san.data = [kind |-> "NormalMove", piece |-> "Rook",
                                    disambiguation_field |-> <<>>,
                                    target |-> <<"e", "7">>, is_capture |-> TRUE]
           /\ sanResult.san.is_checkmate
           /\ sanResult.san.annotation = <<"BangBang">>

\* Nf3 decoded with target f3 and no disambiguation
C13_Witness ==
    /\ sanAccepted
    /\ sanText = <<"N", "f", "3">>
    /\ sanResult.san.data.disambiguation_field = <<>>
    /\ sanResult.san.data.target = <<"f", "3">>

KingSideTexts == {<<"0", "-", "0">>, <<"O", "-", "O">>}
QueenSideTexts == {<<"0", "-", "0", "-", "0">>, <<"O", "-", "O", "-", "O">>}

BareCastle(side) ==
    [data |-> [kind |-> "CastleMove", side |-> side],
     is_check |-> FALSE, is_checkmate |-> FALSE, annotation |-> <<>>]

\* C14: 0-0 and O-O decode to CastleMove KingSide, 0-0-0 and O-O-O to
\* CastleMove QueenSide, with is_check and is_checkmate false and no
\* annotation when no suffix follows; a decoded castle is QueenSide exactly
\* when the text begins with a three-part form.
C14_CastleSides ==
    /\ sanDecoded /\ sanText \in KingSideTexts =>
           sanResult.ok /\ sanResult.san = BareCastle("KingSide")
    /\ sanDecoded /\ sanText \in QueenSideTexts =>
           sanResult.ok /\ sanResult.san = BareCastle("QueenSide")
    /\ sanAccepted /\ sanResult.san.data.kind = "CastleMove" =>
           (sanResult.san.data.side = "QueenSide"
               <=> /\ Len(sanText) >= 5
                   /\ SubSeq(sanText, 1, 5) \in QueenSideTexts)

\* 0-0-0 decoded to the queen side
C14_Witness ==
    /\ sanAccepted
    /\ sanText = <<"0", "-", "0", "-", "0">>
    /\ sanResult.san = BareCastle("QueenSide")

PawnKinds == {"PawnMove", "AbbreviatedPawnMove"}

\* the positions of = in text
EqualsIn(text) == {k \in 1..Len(text) : text[k] = "="}

\* the promotion piece read from the character after the = at k
PromotionAfter(text, k) ==
    IF CharAt(text, k + 1) \in PromotionLetters
    THEN <<PromotionKind(text[k + 1])>> ELSE <<>>

PromotionDecided(text, result) ==
    /\ (\E k \in EqualsIn(text) : CharAt(text, k + 1) \notin PromotionLetters)
           => ~result.ok
    /\ result.ok /\ EqualsIn(text) # {} =>
           /\ result.san.data.kind \in PawnKinds
           /\ Cardinality(EqualsIn(text)) = 1
           /\ \A k \in EqualsIn(text) :
                  result.san.data.promotion_piece = PromotionAfter(text, k)
    /\ result.ok /\ EqualsIn(text) = {} /\ result.san.data.kind \in PawnKinds =>
           result.san.data.promotion_piece = <<>>
    /\ text = <<"e", "8", "=", "Q", "+">> =>
           /\ result.ok
           /\ result.san.data = [kind |-> "PawnMove", target |-> <<"e", "8">>,
                                 is_capture |-> FALSE, capture_rank |-> <<>>,
                                 promotion_piece |-> <<"Queen">>]
           /\ result.san.is_check /\ ~result.san.is_checkmate

\* C15: in a decoded pawn or abbreviated pawn move an = is followed by one of
\* R, N, B, Q and the promotion piece is that one (e8=Q+ is a PawnMove to e8
\* promoting to a Queen with check); a text where = is followed by anything
\* else, or by the end of input, is rejected whatever the other shapes are.
C15_PromotionOrFailure ==
    sanDecoded => PromotionDecided(sanText, sanResult)

\* e8=Q+ decoded with the Queen, and separately a rejected dangling =
C15_Witness ==
    /\ sanAccepted
    /\ sanText = <<"e", "8", "=", "Q", "+">>
    /\ sanResult.san.data.promotion_piece = <<"Queen">>

C15_WitnessRejected ==
    /\ sanRejected
    /\ sanText \in {<<"e", "8", "=">>, <<"e", "8", "=", "K">>, <<"a", "b", "=">>}

BothMarkers == {<<"+", "#">>, <<"#", "+">>}

\* text without its last two characters
BeforeMarkers(text) == SubSeq(text, 1, Len(text) - 2)

\* the literal decodes on its own with no marker and no annotation
IsBareMove(text) ==
    Bind(San_try_from(text),
         LAMBDA r : /\ r.ok
                    /\ ~r.san.is_check /\ ~r.san.is_checkmate
                    /\ r.san.annotation = <<>>)

\* C16: a move followed by +# and the same move followed by #+ both decode,
\* with is_check and is_checkmate true.
C16_MarkersEitherOrder ==
    /\ sanDecoded
    /\ Len(sanText) >= 2
    /\ SubSeq(sanText, Len(sanText) - 1, Len(sanText)) \in BothMarkers
    /\ IsBareMove(BeforeMarkers(sanText))
    => /\ sanResult.ok
       /\ sanResult.san.is_check
       /\ sanResult.san.is_checkmate

AnnotationChars == {"!", "?"}

\* the number of annotation characters the text ends with
RECURSIVE TrailingAnnotationLen(_)
TrailingAnnotationLen(text) ==
    IF text = <<>> \/ text[Len(text)] \notin AnnotationChars THEN 0
    ELSE 1 + TrailingAnnotationLen(SubSeq(text, 1, Len(text) - 1))

\* the suffix of annotation characters
AnnotationSuffix(text) ==
    SubSeq(text, Len(text) - TrailingAnnotationLen(text) + 1, Len(text))

\* the table of the six annotations
AnnotationTable(suffix) ==
    CASE suffix = <<>> -> <<>>
      [] suffix = <<"!">> -> <<"Bang">>
      [] suffix = <<"?">> -> <<"Hook">>
      [] suffix = <<"!", "!">> -> <<"BangBang">>
      [] suffix = <<"!", "?">> -> <<"BangHook">>
      [] suffix = <<"?", "!">> -> <<"HookBang">>
      [] suffix = <<"?", "?">> -> <<"HookHook">>

AnnotationDecided(suffix, result) ==
    /\ Len(suffix) >= 3 => ~result.ok
    /\ result.ok => result.san.annotation = AnnotationTable(suffix)

\* C17: a decoded literal ends with 0, 1 or 2 characters of {!, ?} and its
\* annotation is None, Bang, Hook, BangBang, BangHook, HookBang or HookHook
\* for the suffix none, !, ?, !!, !?, ?!, ??; a literal that ends with three
\* or more annotation characters, such as fd!!!, is rejected.
C17_AnnotationSuffix ==
    sanDecoded => Bind(AnnotationSuffix(sanText),
                       LAMBDA suffix : AnnotationDecided(suffix, sanResult))

\* dxe=R?! decoded with HookBang
C17_Witness ==
    /\ sanAccepted
    /\ sanText = <<"d", "x", "e", "=", "R", "?", "!">>
    /\ sanResult.san.annotation = <<"HookBang">>

C17_WitnessRejected ==
    /\ sanRejected
    /\ sanText = <<"f", "d", "!", "!", "!">>

MarkerTexts == {<<>>, <<"+">>, <<"#">>, <<"+", "#">>}

\* the core move is read from the whole of core
IsWholeCore(core) ==
    Bind(san_data(core), LAMBDA r : r.ok /\ r.tail = <<>>)

\* text is a core move, then markers, then at most two annotation characters
WhollyConsumed(text) ==
    \E i \in 0..Len(text) : \E j \in i..Len(text) :
        /\ Len(text) - j <= 2
        /\ \A k \in (j + 1)..Len(text) : text[k] \in AnnotationChars
        /\ SubSeq(text, i + 1, j) \in MarkerTexts
        /\ IsWholeCore(SubSeq(text, 1, i))

ResidueTexts ==
    { <<"0", "-", "0", "-", "0", "-", "0">>,
      <<"0", "-", "0", "-", "0", "x", "!">>,
      <<>> }

\* C18: a literal is decoded only if its core move, its check and checkmate
\* markers and its annotation suffix make up the entire text; a text with
\* anything left over is rejected, among them 0-0-0-0, 0-0-0x! and the empty
\* text.
C18_EntireInputConsumed ==
    /\ sanAccepted => WhollyConsumed(sanText)
    /\ sanDecoded /\ sanText \in ResidueTexts => ~sanResult.ok

\* the rejected texts with a residue, and a decoded text made of all three parts
C18_Witness ==
    /\ sanRejected
    /\ sanText = <<"0", "-", "0", "-", "0", "-", "0">>
    /\ ~WhollyConsumed(sanText)

C18_WitnessAccepted ==
    /\ sanAccepted
    /\ sanText = <<"R", "x", "e", "7", "#", "!", "!">>

----------------------------------------------------------------------------
(* Claims about Piece and its u8 representation *)

pieceEncoded == pieceOrigin # <<>> /\ piecePc \in {"byte", "done"}
pieceDecoded == piecePc = "done"

\* the numbers of the colors and of the kinds
ColorNumber == [Black |-> 0, White |-> 1]
KindNumber ==
    [None |-> 0, Pawn |-> 1, Rook |-> 2, Knight |-> 3, Bishop |-> 4, Queen |-> 5, King |-> 6]

\* C19: a piece is encoded as its color's number times 8 plus its kind's
\* number, the black king as 6 and the white rook as 10, and decoding the
\* encoding of any of the 14 pieces gives the piece back.
C19_NibbleRoundTrip ==
    /\ pieceEncoded =>
           /\ pieceByte = ColorNumber[pieceOrigin[1].color] * 8
                              + KindNumber[pieceOrigin[1].kind]
           /\ pieceOrigin[1] = [color |-> "Black", kind |-> "King"] => pieceByte = 6
           /\ pieceOrigin[1] = [color |-> "White", kind |-> "Rook"] => pieceByte = 10
    /\ pieceEncoded /\ pieceDecoded =>
           pieceResult = [ok |-> TRUE, piece |-> pieceOrigin[1]]

\* the white rook encoded as 10 and decoded again
C19_Witness ==
    /\ pieceEncoded /\ pieceDecoded
    /\ pieceOrigin[1] = [color |-> "White", kind |-> "Rook"]
    /\ pieceByte = 10
    /\ pieceResult.ok

\* C20: Piece::try_from(v) succeeds exactly when v is in 0..15 and v mod 8 is
\* in 0..6; 7 and 15 fail with InvalidTypeBits and every v of 16 or more
\* fails with InvalidColorBit, whatever its low bits are.
C20_TryFromDomain ==
    pieceDecoded =>
        /\ pieceResult.ok <=> (pieceByte \in 0..15 /\ pieceByte % 8 \in 0..6)
        /\ pieceByte \in {7, 15} =>
               ~pieceResult.ok /\ pieceResult.error = "InvalidTypeBits"
        /\ pieceByte >= 16 =>
               ~pieceResult.ok /\ pieceResult.error = "InvalidColorBit"

\* 23 has both an invalid color and invalid kind bits: the color is reported
C20_Witness ==
    /\ pieceDecoded
    /\ pieceByte = 23
    /\ ~pieceResult.ok
    /\ pieceResult.error = "InvalidColorBit"

C20_WitnessTypeBits ==
    /\ pieceDecoded
    /\ pieceByte = 15
    /\ pieceResult = PieceErr("InvalidTypeBits")

----------------------------------------------------------------------------
(* Claims about squares and their algebraic names *)

\* the number of a file letter (a is 0) and of a rank digit (1 is 0)
FileNumber == [a |-> 0, b |-> 1, c |-> 2, d |-> 3, e |-> 4, f |-> 5, g |-> 6, h |-> 7]
RankNumber(digit) == CHOOSE n \in 0..7 : DigitChars[n + 2] = digit

\* 8 * (rank - 1) + (file - 'a')
RankMajorIndex(name) == 8 * RankNumber(name[2]) + FileNumber[name[1]]

IsSquareName(text) ==
    Len(text) = 2 /\ text[1] \in SquareFiles /\ text[2] \in Digits18

SquareExamples ==
    { <<<<"a", "1">>, 0>>, <<<<"a", "3">>, 16>>, <<<<"d", "6">>, 43>>,
      <<<<"h", "7">>, 55>>, <<<<"h", "8">>, 63>> }

squareRead == sqPc = "Square::try_from"

\* C21: Square::try_from reads a file letter and a rank digit as
\* 8 * (rank - 1) + (file - 'a') (a1 0, a3 16, d6 43, h7 55, h8 63), reads
\* the name Into<String> gives a Square back as that Square, and fails with
\* InvalidFormat on any text that is not one file letter a..h followed by
\* one rank digit 1..8.
C21_SquareRankMajor ==
    /\ squareRead /\ IsSquareName(sqText) =>
           sqResult = [ok |-> TRUE, val |-> RankMajorIndex(sqText)]
    /\ squareRead =>
           \A ex \in SquareExamples : sqText = ex[1] => sqResult.ok /\ sqResult.val = ex[2]
    /\ squareRead /\ sqOrigin # <<>> =>
           sqResult = [ok |-> TRUE, val |-> sqOrigin[1]]
    /\ squareRead /\ ~IsSquareName(sqText) =>
           sqResult = [ok |-> FALSE, error |-> "InvalidFormat", val |-> sqText]

\* the Square 43 named d6 and read back
C21_Witness ==
    /\ squareRead
    /\ sqOrigin = <<43>>
    /\ sqText = <<"d", "6">>
    /\ sqResult = [ok |-> TRUE, val |-> 43]

C21_WitnessInvalid ==
    /\ squareRead
    /\ sqText = <<"a", "1", "1">>
    /\ ~sqResult.ok

indexRead == sqPc = "Index::try_from"
enPassantRead == sqPc = "try_parse_en_passant_target_square"

\* C27: Index::try_from((file, rank)) is 8 * (rank - 1) + (file - 'a') for
\* each of the 64 squares (a1 0, b1 1, a2 8, h8 63) and
\* InvalidAlgebraicPosition for any other pair.
C27_IndexRankMajor ==
    /\ indexRead /\ IsSquareName(sqText) =>
           sqResult = [ok |-> TRUE, val |-> RankMajorIndex(sqText)]
    /\ indexRead /\ ~IsSquareName(sqText) =>
           sqResult = [ok |-> FALSE, error |-> "InvalidAlgebraicPosition", val |-> sqText]

\* C26: for a field made of a file letter and the rank digit 3 or 6,
\* try_parse_en_passant_target_square returns the index of that square, an
\* integer in 0..63 (e3 20, c6 42), without an arithmetic overflow.
C26_EnPassantSquareIndex ==
    enPassantRead /\ IsSquareName(sqText) /\ sqText[2] \in {"3", "6"} =>
        /\ sqResult.ok
        /\ sqResult.val = <<RankMajorIndex(sqText)>>
        /\ sqResult.val[1] \in 0..63

----------------------------------------------------------------------------
(* Claims about the checked entry points of QuadBoard and about decode *)

\* a call whose value is no nibble or whose index is past the board
OutOfRange(call) == call.value >= 16 \/ call.index >= 64

\* C22: write and read check their arguments before the storage is touched:
\* a call with an index of 64 or more or a value of 16 or more aborts without
\* entering set_unchecked or get_unchecked and leaves the four channels as
\* they were, and every other call enters them and does not abort.
C22_CheckedBeforeStorage ==
    /\ [](lastCall # <<>> =>
              IF OutOfRange(lastCall) THEN panicked /\ ~lastCall.unchecked
              ELSE ~panicked /\ lastCall.unchecked)
    /\ [][lastCall' # <<>> /\ OutOfRange(lastCall') => channels' = channels]_vars

\* a write of 16 aborted over a board that holds other values
C22_Witness ==
    /\ panicked
    /\ lastCall.op = "write"
    /\ lastCall.value = 16
    /\ lastCall.index = 63
    /\ channels[1] # {}

\* C23: decode(v) is Ok(v) for every nibble 0..15 and TooLarge(v) for every
\* v of 16 or more, 16 included.
C23_DecodeTooLargeFrom16 ==
    piecePc = "decoded" =>
        pieceResult = IF pieceByte <= 15
                      THEN [ok |-> TRUE, val |-> pieceByte]
                      ELSE [ok |-> FALSE, err |-> "TooLarge", val |-> pieceByte]

----------------------------------------------------------------------------
(* Claims about Position, QuadBoard and RawQuadBoard as one storage *)

\* the three boards hold the same four channels and read the same nibble
SameStorage(pos, quad, raw) ==
    /\ \A ch \in 1..4 : pos[ch] = quad[ch] /\ quad[ch] = raw[ch]
    /\ \A j \in Bits64 :
           /\ get_unchecked(quad, j) = written[j]
           /\ RawQuadBoard_get_unchecked(raw, j) = written[j]
           /\ Position_try_get(pos, j) = Piece_try_from(written[j])

\* C28: after the same writes the four channels of Position, QuadBoard and
\* RawQuadBoard are equal and a read at any square gives the same nibble on
\* each (as the Piece of that nibble on Position); Position::try_write with
\* an index of 64 or more returns Err(()) and leaves the channels unchanged.
C28_SameStorage ==
    /\ [](Bind(<<position, channels, rawChannels>>,
               LAMBDA b : SameStorage(b[1], b[2], b[3])))
    /\ [](lastRead # <<>> =>
              /\ lastRead[2] = Piece_try_from(written[lastRead[1]])
              /\ lastRead[3] = [ok |-> TRUE, val |-> written[lastRead[1]]]
              /\ lastRead[4] = written[lastRead[1]])
    /\ [](tryWriteResult # <<>> => (tryWriteResult[2] <=> tryWriteResult[1] < 64))
    /\ [][tryWriteResult' # <<>> /\ tryWriteResult'[1] >= 64 => position' = position]_vars

\* the white knight's 11 read back from the three boards, which hold the
\* black king as well
C28_Witness ==
    /\ lastRead # <<>>
    /\ lastRead[1] = 4
    /\ lastRead[4] = 11
    /\ lastRead[2] = [ok |-> TRUE, piece |-> [color |-> "White", kind |-> "Knight"]]
    /\ written[63] = 6
    /\ position = rawChannels
    /\ position[4] = {4}

\* a try_write at 64 refused over a board that holds pieces
C28_WitnessOutside ==
    /\ tryWriteResult = <<64, FALSE>>
    /\ position[1] # {}

----------------------------------------------------------------------------
(* Claims about the iterators *)

\* the k-th index in FEN order, k from 1: rank 8 first, files a to h
FenOrder(k) == 8 * (7 - ((k - 1) \div 8)) + ((k - 1) % 8)

\* C25: a new FenIndexIterator yields 56..63, 48..55, ..., 0..7 in that
\* order, each index of 0..63 once, and None from the 65th call on; its
\* index field never underflows and stays within 0..63.
C25_FenOrderThenNone ==
    iterKind = "FenIndex" =>
        /\ \A k \in 1..Len(yielded) :
               yielded[k] = IF k <= 64 THEN <<FenOrder(k)>> ELSE <<>>
        /\ ~iter.overflow
        /\ iter.index \in 0..63

\* all 64 indices yielded, the last step back from 15 to 0 among them, and
\* None returned after them
C25_Witness ==
    /\ iterKind = "FenIndex"
    /\ Len(yielded) = 65
    /\ yielded[57] = <<0>>
    /\ yielded[65] = <<>>
    /\ {yielded[k][1] : k \in 1..64} = Bits64

\* C29: iterating a BitBoard yields 64 booleans, the k-th being bit k of
\* the board, and None afterwards; the mask is 0 or a single bit; the
\* BitBoard collected from the 64 booleans is the board iterated.
C29_BitsThenNone ==
    iterKind = "BitBoard" =>
        /\ \A k \in 1..Len(yielded) :
               yielded[k] = IF k <= 64 THEN <<(k - 1) \in iter.board>> ELSE <<>>
        /\ Cardinality(iter.mask) <= 1
        /\ collected # <<>> => collected = <<iter.board>>

\* the board 0x8000000100000021 iterated to its end and collected again
C29_Witness ==
    /\ iterKind = "BitBoard"
    /\ iter.board = {0, 5, 32, 63}
    /\ Len(yielded) >= 65
    /\ yielded[64] = <<TRUE>>
    /\ collected = <<{0, 5, 32, 63}>>

\* how many of the calls so far returned Some
RECURSIVE SomeCount(_)
SomeCount(calls) ==
    IF calls = <<>> THEN 0
    ELSE (IF Head(calls).result # <<>> THEN 1 ELSE 0) + SomeCount(Tail(calls))

\* C30: after any calls of next and next_back on a rank iterator, len() is
\* 8 minus the number of ranks yielded so far and does not underflow; 8
\* ranks are yielded in all, and the first next gives rank 1.
C30_RankLenIsRemaining ==
    iterKind = "Rank" =>
        /\ \A k \in 1..Len(yielded) :
               /\ yielded[k].len.ok
               /\ yielded[k].len.val = 8 - SomeCount(SubSeq(yielded, 1, k))
        /\ SomeCount(yielded) <= 8
        /\ Len(yielded) >= 8 => SomeCount(yielded) = 8
        /\ yielded # <<>> /\ yielded[1].call = "next" => yielded[1].result = <<1>>

----------------------------------------------------------------------------
(* Claims about FenData::try_from *)

fenDataRead == fdPc = "FenData::try_from"

\* the number of fields of a text: one more than its spaces
FieldCount(text) == Cardinality({k \in 1..Len(text) : text[k] = " "}) + 1

FiveFieldOutcomes(fields, build) ==
    << try_parse_piece_placement(fields[1], <<{}, {}, {}, {}>>, FenIndexIterator_new),
       try_parse_side_to_move(fields[2]),
       try_parse_castling_permissions(fields[3]),
       try_parse_en_passant_target_square(fields[4], build),
       try_parse_halfmove_clock(fields[5]) >>

C24_WitnessFieldError ==
    /\ fenDataRead
    /\ FieldCount(fdText) = 5
    /\ fdResult = FenErr("InvalidPieceToMoveComponent")

\* seven fields, none of them parsed: TooManyFields
C24_WitnessTooMany ==
    /\ fenDataRead
    /\ FieldCount(fdText) = 7
    /\ SubSeq(fdText, 1, 3) = <<"8", "/", "x">>
    /\ fdResult = FenErr("TooManyFields")

=============================================================================
